---- MODULE Spec2Model ----
(***************************************************************************)
(* A state-machine model of MCVirt's control plane:                        *)
(*   - the session table          (mcvirt/auth/session.py)                 *)
(*   - the permission model       (mcvirt/auth.py)                         *)
(*   - the VM creation workflow   (mcvirt/virtual_machine/factory.py)      *)
(* Python's None is the string "None"; Python's False stored in            *)
(* SessionInfo.expires is the number 0 (False == 0 in Python).             *)
(***************************************************************************)
EXTENDS Integers, Sequences, FiniteSets, TLC

VARIABLES
    now,            \* time.time(), in timeout units
    USER_SESSIONS,  \* Session.USER_SESSIONS: session id -> SessionInfo
    superusers,     \* MCVirtConfig().getConfig()['superusers'] of the local node
    permissions,    \* node -> scope ("None": the global config, or a VM name)
                    \*      -> getPermissionConfig(), a dict in items() order
    initialise_nodes, \* mcvirt_object.initialiseNodes(): the cluster is initialised
    dispatched,     \* the remote commands the last call sent, in order
    vm_dirs,        \* node -> the VM names whose directory exists there
    virtual_machines, \* node -> MCVirtConfig().get_config()['virtual_machines']
    vm_config,      \* node -> VM name -> the VM's configuration record there
    libvirt_domains, \* node -> the VM names registered with libvirt there
    CACHED_OBJECTS, \* node -> Factory.CACHED_OBJECTS: VM name -> handle
    objects_made,   \* node -> the number of VirtualMachine objects constructed
    drbd_enabled,   \* node -> node_drbd.is_enabled()
    cluster_nodes,  \* node -> cluster.get_nodes(return_all=True): its peers, in order
    created,        \* the names whose create, called by a user, has succeeded
    threads,        \* thread -> the call it is executing, its position and locals
    lock,           \* the holder of the lock of the locking methods, or "None"
    ret             \* the last call: operation, arguments, outcome

sessVars == <<now, USER_SESSIONS>>
authVars == <<superusers, permissions, initialise_nodes, dispatched>>
vmVars == <<vm_dirs, virtual_machines, vm_config, libvirt_domains, CACHED_OBJECTS,
            objects_made, drbd_enabled, cluster_nodes, created>>
concVars == <<threads, lock>>
vars == <<now, USER_SESSIONS, superusers, permissions, initialise_nodes, dispatched,
          vm_dirs, virtual_machines, vm_config, libvirt_domains, CACHED_OBJECTS,
          objects_made, drbd_enabled, cluster_nodes, created, threads, lock, ret>>

\* ------------------------------------------------------------------ bounds
MaxTime == 4        \* the clock stops here
MaxExpires == 7     \* renewals that would push an expiry beyond this are not explored

\* ------------------------------------------------------------ the outcome
Toggle == 1 - ret.n

NoCall == [op |-> "none", n |-> 0]

\* The threads of the daemon that serve calls concurrently
Threads == {"t1", "t2"}

Idle == [pc |-> "idle"]

\* No call is being served
ThreadsIdle ==
    /\ threads = [t \in Threads |-> Idle]
    /\ lock = "None"

\* ---------------------------------------------------------------- sessions
SessionIds == {"s1", "s2"}

\* The user directory (user_factory): alice is of a class whose sessions
\* expire, svc (a cluster/connection user) of one whose sessions do not.
Users == {"alice", "svc"}
Usernames == Users \cup {"mallory"}
Passwords == {"good", "bad"}

EXPIRE_SESSION(username) == username = "alice"

\* user_factory.authenticate(username, password): the user object, or None
user_factory_authenticate(username, password) ==
    IF username \in Users /\ password = "good" THEN username ELSE "None"

\* user_class.allow_proxy_user: the connection user may act for another user
allow_proxy_user(username) == username = "svc"

\* user_factory.get_user_by_username(username): the user object, or the
\* exception raised for a name that is not in the directory
get_user_by_username(username) ==
    IF username \in Users THEN username ELSE "UserDoesNotExistException"

\* SessionInfo.get_timeout(): session_timeout * 60, one unit of the clock here
get_timeout == 2

\* SessionInfo.__init__
SessionInfo(username, clock) ==
    [username |-> username,
     expires  |-> IF EXPIRE_SESSION(username) THEN clock + get_timeout ELSE 0]

is_valid_NoExpiry(info, clock) == TRUE

\* SessionInfo.is_valid
is_valid(info, clock) ==
    IF info.expires # 0 THEN info.expires > clock ELSE TRUE

\* SessionInfo.renew
renew(info) ==
    IF info.expires # 0
    THEN [info EXCEPT !.expires = info.expires + get_timeout]
    ELSE info

\* dict item deletion: del d[k]
DictDel(d, k) == [x \in DOMAIN d \ {k} |-> d[x]]

\* dict item assignment: d[k] = v
DictSet(d, k, v) == [x \in DOMAIN d \cup {k} |-> IF x = k THEN v ELSE d[x]]

\* Session.authenticate_user. Session._generate_session_id draws 8 random
\* bytes: an id not in the table.
authenticate_user(username, password) ==
    LET user_object == user_factory_authenticate(username, password) IN
    /\ IF user_object # "None"
       THEN \E session_id \in SessionIds \ DOMAIN USER_SESSIONS :
              /\ USER_SESSIONS' = DictSet(USER_SESSIONS, session_id,
                                          SessionInfo(username, now))
              /\ ret' = [op |-> "authenticate_user", username |-> username,
                         session |-> session_id, status |-> "ok",
                         value |-> session_id, n |-> Toggle]
       ELSE /\ USER_SESSIONS' = USER_SESSIONS
            /\ ret' = [op |-> "authenticate_user", username |-> username,
                       session |-> "None", status |-> "AuthenticationError",
                       value |-> "None", n |-> Toggle]
    /\ UNCHANGED now

authenticate_session_NoUsernameCheck(username, session) ==
    /\ IF session \in DOMAIN USER_SESSIONS
       THEN IF is_valid(USER_SESSIONS[session], now)
            THEN /\ USER_SESSIONS[session].expires + get_timeout <= MaxExpires
                 /\ USER_SESSIONS' = [USER_SESSIONS EXCEPT
                                        ![session] = renew(USER_SESSIONS[session])]
                 /\ ret' = [op |-> "authenticate_session", username |-> username,
                            session |-> session, status |-> "ok",
                            value |-> get_user_by_username(username), n |-> Toggle]
            ELSE /\ USER_SESSIONS' = DictDel(USER_SESSIONS, session)
                 /\ ret' = [op |-> "authenticate_session", username |-> username,
                            session |-> session, status |-> "AuthenticationError",
                            value |-> "None", n |-> Toggle]
       ELSE /\ USER_SESSIONS' = USER_SESSIONS
            /\ ret' = [op |-> "authenticate_session", username |-> username,
                       session |-> session, status |-> "AuthenticationError",
                       value |-> "None", n |-> Toggle]
    /\ UNCHANGED now

authenticate_session_RenewExpired(username, session) ==
    /\ IF /\ session \in DOMAIN USER_SESSIONS
          /\ USER_SESSIONS[session].username = username
       THEN IF is_valid(USER_SESSIONS[session], now)
            THEN /\ USER_SESSIONS[session].expires + get_timeout <= MaxExpires
                 /\ USER_SESSIONS' = [USER_SESSIONS EXCEPT
                                        ![session] = renew(USER_SESSIONS[session])]
                 /\ ret' = [op |-> "authenticate_session", username |-> username,
                            session |-> session, status |-> "ok",
                            value |-> get_user_by_username(username), n |-> Toggle]
            ELSE /\ USER_SESSIONS[session].expires + get_timeout <= MaxExpires
                 /\ USER_SESSIONS' = [USER_SESSIONS EXCEPT
                                        ![session] = renew(USER_SESSIONS[session])]
                 /\ ret' = [op |-> "authenticate_session", username |-> username,
                            session |-> session, status |-> "AuthenticationError",
                            value |-> "None", n |-> Toggle]
       ELSE /\ USER_SESSIONS' = USER_SESSIONS
            /\ ret' = [op |-> "authenticate_session", username |-> username,
                       session |-> session, status |-> "AuthenticationError",
                       value |-> "None", n |-> Toggle]
    /\ UNCHANGED now

\* Session.authenticate_session
authenticate_session(username, session) ==
    /\ IF /\ session \in DOMAIN USER_SESSIONS
          /\ USER_SESSIONS[session].username = username
       THEN IF is_valid(USER_SESSIONS[session], now)
            THEN /\ USER_SESSIONS[session].expires + get_timeout <= MaxExpires
                 /\ USER_SESSIONS' = [USER_SESSIONS EXCEPT
                                        ![session] = renew(USER_SESSIONS[session])]
                 /\ ret' = [op |-> "authenticate_session", username |-> username,
                            session |-> session, status |-> "ok",
                            value |-> get_user_by_username(username), n |-> Toggle]
            ELSE /\ USER_SESSIONS' = DictDel(USER_SESSIONS, session)
                 /\ ret' = [op |-> "authenticate_session", username |-> username,
                            session |-> session, status |-> "AuthenticationError",
                            value |-> "None", n |-> Toggle]
       ELSE /\ USER_SESSIONS' = USER_SESSIONS
            /\ ret' = [op |-> "authenticate_session", username |-> username,
                       session |-> session, status |-> "AuthenticationError",
                       value |-> "None", n |-> Toggle]
    /\ UNCHANGED now

\* Pyro4.current_context: the session id bound to the call (or None) and the
\* proxy_user attribute ("absent" when the context has no such attribute)
Contexts ==
    [session_id : SessionIds \cup {"None"},
     proxy_user : {"absent", "None"} \cup Usernames]

Errors == {"CurrentUserError", "KeyError", "UserDoesNotExistException"}

\* Session.get_current_user_object: the user object, or the exception raised
get_current_user_object(context) ==
    IF context.session_id # "None"
    THEN IF context.session_id \notin DOMAIN USER_SESSIONS THEN "KeyError"
         ELSE get_user_by_username(USER_SESSIONS[context.session_id].username)
    ELSE "CurrentUserError"

get_proxy_user_object_AnyClass(context) ==
    LET current_user == get_current_user_object(context)
    IN  IF current_user \in Errors THEN current_user
        ELSE IF context.proxy_user \notin {"absent", "None"}
        THEN IF get_user_by_username(context.proxy_user) = "UserDoesNotExistException"
             THEN current_user
             ELSE get_user_by_username(context.proxy_user)
        ELSE current_user

\* Session.get_proxy_user_object: the user object, or the exception raised
get_proxy_user_object(context) ==
    LET current_user == get_current_user_object(context)
    IN  IF current_user \in Errors THEN current_user
        ELSE IF allow_proxy_user(current_user)
                /\ context.proxy_user \notin {"absent", "None"}
        THEN IF get_user_by_username(context.proxy_user) = "UserDoesNotExistException"
             THEN current_user
             ELSE get_user_by_username(context.proxy_user)
        ELSE current_user

\* -------------------------------------------------------------- permissions
\* Auth.PERMISSIONS
PERMISSIONS ==
    {"CHANGE_VM_POWER_STATE", "CREATE_VM", "MODIFY_VM", "MANAGE_VM_USERS",
     "VIEW_VNC_CONSOLE", "CLONE_VM", "DELETE_CLONE", "MANAGE_HOST_NETWORKS",
     "MANAGE_CLUSTER", "MANAGE_DRBD", "CAN_IGNORE_DRBD", "MIGRATE_VM",
     "DUPLICATE_VM", "SET_VM_LOCK", "BACKUP_VM"}

\* Auth.PERMISSION_GROUPS
PERMISSION_GROUPS ==
    [user  |-> {"CHANGE_VM_POWER_STATE", "VIEW_VNC_CONSOLE"},
     owner |-> {"CHANGE_VM_POWER_STATE", "MANAGE_VM_USERS", "VIEW_VNC_CONSOLE",
                "CLONE_VM", "DELETE_CLONE", "DUPLICATE_VM"}]

\* The cluster: the node the calls are made on, and its peers
LocalNode == "node1"
Peers == <<"node2", "node3">>
Nodes == {LocalNode} \cup {Peers[i] : i \in DOMAIN Peers}

\* The scopes of a permission configuration: "None" is the global
\* configuration (MCVirtConfig), a VM name that VM's configuration.
VmNames == {"vm1", "vm2"}
Scopes == {"None"} \cup VmNames

\* x in list
InList(x, list) == \E i \in DOMAIN list : list[i] = x

\* The group names a persisted configuration may hold; staff is not a group
\* of PERMISSION_GROUPS.
GroupNames == {"user", "owner", "staff"}

\* The accounts that run the program through sudo; without SUDO_USER the
\* program is run by root itself.
SudoUsers == {"None", "alice", "carol"}

\* Auth.getUsername, for a process whose effective uid is 0 (Auth.__init__
\* raises through checkRootPrivileges otherwise)
getUsername(SUDO_USER) == IF SUDO_USER # "None" THEN SUDO_USER ELSE "root"

isSuperuser_ListOnly(SUDO_USER) == InList(getUsername(SUDO_USER), superusers)

\* Auth.isSuperuser
isSuperuser(SUDO_USER) ==
    LET username == getUsername(SUDO_USER)
    IN  InList(username, superusers) \/ username = "root"

\* The for loop of Auth.checkPermissionInConfig from item i on: "True",
\* "False", or "error" when the raise statement is reached
RECURSIVE checkPermissionInConfigFrom(_, _, _, _)
checkPermissionInConfigFrom(permission_config, i, user, permission_enum) ==
    IF i > Len(permission_config) THEN "False"
    ELSE IF permission_config[i].group \notin DOMAIN PERMISSION_GROUPS
    THEN "error"
    ELSE IF /\ InList(user, permission_config[i].users)
            /\ permission_enum \in PERMISSION_GROUPS[permission_config[i].group]
    THEN "True"
    ELSE checkPermissionInConfigFrom(permission_config, i + 1, user, permission_enum)

\* Auth.checkPermissionInConfig
checkPermissionInConfig(permission_config, user, permission_enum) ==
    checkPermissionInConfigFrom(permission_config, 1, user, permission_enum)

checkPermission_GlobalOnly(SUDO_USER, permission_enum, vm_object) ==
    IF isSuperuser(SUDO_USER) THEN "True"
    ELSE checkPermissionInConfig(permissions[LocalNode]["None"],
                                 getUsername(SUDO_USER), permission_enum)

\* Auth.checkPermission on the local node: "True", "False" or "error"
checkPermission(SUDO_USER, permission_enum, vm_object) ==
    IF isSuperuser(SUDO_USER) THEN "True"
    ELSE LET mcvirt_permissions == permissions[LocalNode]["None"]
             in_global == checkPermissionInConfig(mcvirt_permissions,
                                                  getUsername(SUDO_USER), permission_enum)
         IN  IF in_global # "False" THEN in_global
             ELSE IF vm_object # "None"
             THEN checkPermissionInConfig(permissions[LocalNode][vm_object],
                                          getUsername(SUDO_USER), permission_enum)
             ELSE "False"

\* Auth.assertPermission: "True" or "error"
assertPermission(SUDO_USER, permission_enum, vm_object) ==
    IF checkPermission(SUDO_USER, permission_enum, vm_object) = "True"
    THEN "True" ELSE "error"

\* A call of Auth().checkPermission by the account SUDO_USER
CheckPermission ==
    /\ \E SUDO_USER \in SudoUsers, vm_object \in Scopes,
          permission_enum \in {"CHANGE_VM_POWER_STATE", "MANAGE_VM_USERS",
                               "CREATE_VM"} :
          LET r == checkPermission(SUDO_USER, permission_enum, vm_object)
          IN  ret' = [op |-> "checkPermission", SUDO_USER |-> SUDO_USER,
                      permission |-> permission_enum, vm_object |-> vm_object,
                      status |-> IF r = "error" THEN "error" ELSE "ok",
                      value |-> IF r = "error" THEN "None" ELSE r,
                      n |-> Toggle]
    /\ UNCHANGED <<sessVars, authVars, vmVars, concVars>>

\* Auth.__init__(username): self.username
Auth_init(username, SUDO_USER) ==
    IF username # "None" THEN username ELSE getUsername(SUDO_USER)

\* A method of an Auth object, called in a process run by the account
\* SUDO_USER: isSuperuser, checkPermission and assertPermission read
\* Auth.getUsername() and never self.username
AuthMethod(self, method, SUDO_USER, permission_enum, vm_object) ==
    CASE method = "isSuperuser" ->
           IF isSuperuser(SUDO_USER) THEN "True" ELSE "False"
      [] method = "checkPermission" ->
           checkPermission(SUDO_USER, permission_enum, vm_object)
      [] method = "assertPermission" ->
           assertPermission(SUDO_USER, permission_enum, vm_object)

\* Auth(username).method(...) in a process run by the account SUDO_USER
CallAuthMethod ==
    /\ \E username \in {"None", "alice", "bob", "carol"}, SUDO_USER \in SudoUsers,
          method \in {"isSuperuser", "checkPermission", "assertPermission"},
          permission_enum \in {"CHANGE_VM_POWER_STATE", "MANAGE_VM_USERS"},
          vm_object \in {"None", "vm1"} :
          LET self == [username |-> Auth_init(username, SUDO_USER)]
              r == AuthMethod(self, method, SUDO_USER, permission_enum, vm_object)
          IN  ret' = [op |-> "Auth", method |-> method, given |-> username,
                      username |-> self.username, SUDO_USER |-> SUDO_USER,
                      permission |-> permission_enum, vm_object |-> vm_object,
                      status |-> IF r = "error" THEN "error" ELSE "ok",
                      value |-> IF r = "error" THEN "None" ELSE r, n |-> Toggle]
    /\ UNCHANGED <<sessVars, authVars, vmVars, concVars>>

\* The permission configurations a node may hold when the program starts:
\* both groups of a freshly created configuration in either items() order,
\* possibly with a group that PERMISSION_GROUPS does not define, alice
\* being a member of any of them.
GroupOrders ==
    {<<"user", "owner">>, <<"owner", "user">>,
     <<"staff", "user", "owner">>, <<"user", "staff", "owner">>,
     <<"user", "owner", "staff">>}

InitialMembers == {<< >>, <<"alice">>}

InitialConfigs ==
    UNION {{[i \in DOMAIN order |->
               [group |-> order[i],
                users |-> IF order[i] = "staff" THEN <<"alice">> ELSE members[order[i]]]]
            : members \in [{"user", "owner"} -> InitialMembers]}
           : order \in GroupOrders}

\* The permission configuration of a freshly created configuration
EmptyConfig ==
    <<[group |-> "user", users |-> << >>], [group |-> "owner", users |-> << >>]>>

OwnedByAlice ==
    <<[group |-> "user", users |-> << >>], [group |-> "owner", users |-> <<"alice">>]>>

\* The cluster configuration when every node has the two others as peers
ClusterOrder == <<"node1", "node2", "node3">>
FullCluster == [node \in Nodes |-> SelectSeq(ClusterOrder, LAMBDA peer : peer # node)]

AuthIdle ==
    /\ superusers = <<"carol">>
    /\ permissions = [node \in Nodes |-> [scope \in Scopes |-> EmptyConfig]]
    /\ initialise_nodes = TRUE
    /\ dispatched = << >>

VmIdle ==
    /\ vm_dirs = [node \in Nodes |-> {}]
    /\ virtual_machines = [node \in Nodes |-> << >>]
    /\ vm_config = [node \in Nodes |-> << >>]
    /\ libvirt_domains = [node \in Nodes |-> {}]
    /\ CACHED_OBJECTS = [node \in Nodes |-> << >>]
    /\ objects_made = [node \in Nodes |-> 0]
    /\ drbd_enabled = [node \in Nodes |-> TRUE]
    /\ cluster_nodes = FullCluster
    /\ created = {}

SessionIdle ==
    /\ now = 1
    /\ USER_SESSIONS = << >>

PermInit ==
    /\ SessionIdle
    /\ ThreadsIdle
    /\ VmIdle
    /\ superusers \in {<< >>, <<"carol">>}
    /\ \E global \in InitialConfigs, vm \in InitialConfigs,
          other \in {EmptyConfig, OwnedByAlice} :
         permissions = [node \in Nodes |-> [scope \in Scopes |->
                          IF scope = "None" THEN global
                          ELSE IF scope = "vm1" THEN vm ELSE other]]
    /\ initialise_nodes = TRUE
    /\ dispatched = << >>
    /\ ret = NoCall

PermNext == CheckPermission

PermSpec == PermInit /\ [][PermNext]_vars

\* carol may be a superuser and alice an owner, globally or of vm1.
AmbientInit ==
    /\ SessionIdle
    /\ ThreadsIdle
    /\ VmIdle
    /\ superusers \in {<< >>, <<"carol">>}
    /\ \E global \in {EmptyConfig, OwnedByAlice}, vm \in {EmptyConfig, OwnedByAlice} :
         permissions = [node \in Nodes |-> [scope \in Scopes |->
                          IF scope = "None" THEN global
                          ELSE IF scope = "vm1" THEN vm ELSE EmptyConfig]]
    /\ initialise_nodes = TRUE
    /\ dispatched = << >>
    /\ ret = NoCall

AmbientNext == CallAuthMethod

AmbientSpec == AmbientInit /\ [][AmbientNext]_vars

\* ------------------------------------------------------- group membership
\* permission_group in permission_config.keys()
HasGroup(permission_config, permission_group) ==
    \E i \in DOMAIN permission_config : permission_config[i].group = permission_group

\* permission_config[permission_group]
UsersOf(permission_config, permission_group) ==
    permission_config[CHOOSE i \in DOMAIN permission_config :
                          permission_config[i].group = permission_group].users

\* Auth.getUsersInPermissionGroup on a node: the list, or "error"
getUsersInPermissionGroup(perms, node, permission_group, vm_object) ==
    IF HasGroup(perms[node][vm_object], permission_group)
    THEN UsersOf(perms[node][vm_object], permission_group)
    ELSE "error"

\* addUserToConfig: config['permissions'][permission_group].append(username)
addUserToConfig(permission_config, permission_group, username) ==
    [i \in DOMAIN permission_config |->
        IF permission_config[i].group = permission_group
        THEN [permission_config[i] EXCEPT !.users = Append(@, username)]
        ELSE permission_config[i]]

\* list.index(username) and del list[user_index]
DelFirst(list, username) ==
    LET user_index == CHOOSE i \in DOMAIN list :
                          list[i] = username /\ \A j \in 1..(i - 1) : list[j] # username
    IN  SubSeq(list, 1, user_index - 1) \o SubSeq(list, user_index + 1, Len(list))

\* The updateConfig callback of deleteUserPermissionGroup
removeUserFromConfig(permission_config, permission_group, username) ==
    [i \in DOMAIN permission_config |->
        IF permission_config[i].group = permission_group
        THEN [permission_config[i] EXCEPT !.users = DelFirst(@, username)]
        ELSE permission_config[i]]

\* A peer executing a remote command: the same operation, run there by the
\* cluster's privileged account with the arguments the command carries and
\* without replicating further.
RemoteExecute(perms, node, command) ==
    LET users == getUsersInPermissionGroup(perms, node, command.permission_group,
                                           command.vm_name)
        config == perms[node][command.vm_name]
    IN  IF users = "error" THEN [permissions |-> perms, status |-> "error"]
        ELSE IF command.action = "auth-addUserPermissionGroup"
        THEN IF ~InList(command.username, users)
             THEN [permissions |->
                      [perms EXCEPT ![node][command.vm_name] =
                          addUserToConfig(config, command.permission_group,
                                          command.username)],
                   status |-> "ok"]
             ELSE [permissions |-> perms, status |-> "error"]
        ELSE IF InList(command.username, users)
             THEN [permissions |->
                      [perms EXCEPT ![node][command.vm_name] =
                          removeUserFromConfig(config, command.permission_group,
                                               command.username)],
                   status |-> "ok"]
             ELSE [permissions |-> perms, status |-> "error"]

\* Cluster.getNodes()
getNodes == Peers

\* Cluster.runRemoteCommand(action, arguments): the command is sent to every
\* peer in turn; the first failure is raised to the caller.
RECURSIVE runRemoteCommandFrom(_, _, _)
runRemoteCommandFrom(st, command, i) ==
    IF i > Len(getNodes) \/ st.status # "ok" THEN st
    ELSE LET r == RemoteExecute(st.permissions, getNodes[i], command)
         IN  runRemoteCommandFrom(
                 [permissions |-> r.permissions,
                  dispatched  |-> Append(st.dispatched,
                                         [node |-> getNodes[i], command |-> command]),
                  status      |-> r.status],
                 command, i + 1)

runRemoteCommand(st, command) == runRemoteCommandFrom(st, command, 1)

\* The loop "for node in cluster_object.getNodes(): runRemoteCommand(...)" of
\* addUserPermissionGroup from its k-th iteration on
RECURSIVE addReplicateFrom(_, _, _)
addReplicateFrom(st, command, k) ==
    IF k > Len(getNodes) \/ st.status # "ok" THEN st
    ELSE addReplicateFrom(runRemoteCommand(st, command), command, k + 1)

addAuthorised_OwnersAddOwners(SUDO_USER, permission_group, vm_object) ==
    IF isSuperuser(SUDO_USER) THEN "True"
    ELSE IF vm_object = "None" THEN "error"
    ELSE assertPermission(SUDO_USER, "MANAGE_VM_USERS", vm_object)

\* The authorisation test of addUserPermissionGroup: "True", or "error" when
\* it (or assertPermission within it) raises
addAuthorised(SUDO_USER, permission_group, vm_object) ==
    IF isSuperuser(SUDO_USER) THEN "True"
    ELSE IF vm_object = "None" THEN "error"
    ELSE IF assertPermission(SUDO_USER, "MANAGE_VM_USERS", vm_object) = "error"
    THEN "error"
    ELSE IF permission_group = "user" THEN "True" ELSE "error"

\* Auth.addUserPermissionGroup on the local node:
\* [permissions, dispatched, status]
addUserPermissionGroup(SUDO_USER, initialiseNodes, permission_group, username, vm_object, ignore_duplicate) ==
    LET unchanged(status) ==
            [permissions |-> permissions, dispatched |-> << >>, status |-> status]
        users == getUsersInPermissionGroup(permissions, LocalNode, permission_group,
                                           vm_object)
    IN  IF addAuthorised(SUDO_USER, permission_group, vm_object) = "error"
        THEN unchanged("error")
        ELSE IF users = "error" THEN unchanged("error")
        ELSE IF ~InList(username, users)
        THEN LET updated ==
                    [permissions EXCEPT ![LocalNode][vm_object] =
                        addUserToConfig(@, permission_group, username)]
                 st == [permissions |-> updated, dispatched |-> << >>, status |-> "ok"]
             IN  IF initialiseNodes
                 THEN addReplicateFrom(st,
                          [action |-> "auth-addUserPermissionGroup",
                           permission_group |-> permission_group,
                           username |-> username, vm_name |-> vm_object], 1)
                 ELSE st
        ELSE IF ~ignore_duplicate THEN unchanged("error")
        ELSE unchanged("ok")

\* The condition of the outer if of deleteUserPermissionGroup: "True",
\* "False", or "error" when assertPermission raises
deleteAuthorised(SUDO_USER, permission_group, vm_object) ==
    IF isSuperuser(SUDO_USER) THEN "True"
    ELSE IF assertPermission(SUDO_USER, "MANAGE_VM_USERS", vm_object) = "error"
    THEN "error"
    ELSE IF permission_group = "user" THEN "True" ELSE "False"

\* Auth.deleteUserPermissionGroup on the local node:
\* [permissions, dispatched, status]. The outer if has no else: a caller it
\* turns away returns None. vm_object.getConfigObject() raises
\* AttributeError on None.
deleteUserPermissionGroup(SUDO_USER, initialiseNodes, permission_group, username, vm_object) ==
    LET unchanged(status) ==
            [permissions |-> permissions, dispatched |-> << >>, status |-> status]
        authorised == deleteAuthorised(SUDO_USER, permission_group, vm_object)
    IN  IF authorised = "error" THEN unchanged("error")
        ELSE IF authorised = "False" THEN unchanged("ok")
        ELSE IF vm_object = "None" THEN unchanged("error")
        ELSE LET users == getUsersInPermissionGroup(permissions, LocalNode,
                                                    permission_group, vm_object)
             IN  IF users = "error" THEN unchanged("error")
                 ELSE IF InList(username, users)
                 THEN LET updated ==
                             [permissions EXCEPT ![LocalNode][vm_object] =
                                 removeUserFromConfig(@, permission_group, username)]
                          st == [permissions |-> updated, dispatched |-> << >>,
                                 status |-> "ok"]
                      IN  IF initialiseNodes
                          THEN runRemoteCommand(st,
                                   [action |-> "auth-deleteUserPermissionGroup",
                                    permission_group |-> permission_group,
                                    username |-> username, vm_name |-> vm_object])
                          ELSE st
                 ELSE unchanged("error")

\* The usernames added to and removed from groups, and the VMs they are
\* added on
MemberNames == {"bob"}
ManagedScopes == {"None", "vm1"}

AddUserPermissionGroup ==
    /\ \E SUDO_USER \in SudoUsers,
          permission_group \in GroupNames, username \in MemberNames,
          vm_object \in ManagedScopes, ignore_duplicate \in BOOLEAN :
          LET r == addUserPermissionGroup(SUDO_USER, initialise_nodes, permission_group,
                                          username, vm_object, ignore_duplicate)
          IN  /\ permissions' = r.permissions
              /\ dispatched' = r.dispatched
              /\ ret' = [op |-> "addUserPermissionGroup", SUDO_USER |-> SUDO_USER,
                         permission_group |-> permission_group,
                         username |-> username, vm_object |-> vm_object,
                         ignore_duplicate |-> ignore_duplicate,
                         status |-> r.status, n |-> Toggle]
    /\ UNCHANGED <<sessVars, superusers, initialise_nodes, vmVars, concVars>>

DeleteUserPermissionGroup ==
    /\ \E SUDO_USER \in SudoUsers,
          permission_group \in GroupNames, username \in MemberNames,
          vm_object \in ManagedScopes :
          LET r == deleteUserPermissionGroup(SUDO_USER, initialise_nodes,
                                             permission_group, username, vm_object)
          IN  /\ permissions' = r.permissions
              /\ dispatched' = r.dispatched
              /\ ret' = [op |-> "deleteUserPermissionGroup", SUDO_USER |-> SUDO_USER,
                         permission_group |-> permission_group,
                         username |-> username, vm_object |-> vm_object,
                         status |-> r.status, n |-> Toggle]
    /\ UNCHANGED <<sessVars, superusers, initialise_nodes, vmVars, concVars>>

UsedByAlice ==
    <<[group |-> "user", users |-> <<"alice">>], [group |-> "owner", users |-> << >>]>>

OwnedByAliceWithStaff ==
    <<[group |-> "owner", users |-> <<"alice">>], [group |-> "staff", users |-> << >>],
      [group |-> "user", users |-> << >>]>>

\* Every node starts with the same configurations.
GroupInit ==
    /\ SessionIdle
    /\ ThreadsIdle
    /\ VmIdle
    /\ superusers = <<"carol">>
    /\ \E global \in {EmptyConfig, OwnedByAlice},
          vm \in {EmptyConfig, OwnedByAlice, UsedByAlice, OwnedByAliceWithStaff} :
         permissions = [node \in Nodes |-> [scope \in Scopes |->
                          IF scope = "None" THEN global
                          ELSE IF scope = "vm1" THEN vm ELSE EmptyConfig]]
    /\ initialise_nodes \in BOOLEAN
    /\ dispatched = << >>
    /\ ret = NoCall

GroupNext ==
    \/ AddUserPermissionGroup
    \/ DeleteUserPermissionGroup

GroupSpec == GroupInit /\ [][GroupNext]_vars

\* ------------------------------------------------------------- VM creation
Letters ==
    {"a", "b", "c", "d", "e", "f", "g", "h", "i", "j", "k", "l", "m", "n", "o", "p",
     "q", "r", "s", "t", "u", "v", "w", "x", "y", "z",
     "A", "B", "C", "D", "E", "F", "G", "H", "I", "J", "K", "L", "M", "N", "O", "P",
     "Q", "R", "S", "T", "U", "V", "W", "X", "Y", "Z"}
Digits == {"0", "1", "2", "3", "4", "5", "6", "7", "8", "9"}

\* The characters of the strings given as names
Chars(string) ==
    CASE string = "vm1"   -> <<"v", "m", "1">>
      [] string = "vm2"   -> <<"v", "m", "2">>
      [] string = "ab"    -> <<"a", "b">>
      [] string = "-vm"   -> <<"-", "v", "m">>
      [] string = "node1" -> <<"n", "o", "d", "e", "1">>
      [] string = "node2" -> <<"n", "o", "d", "e", "2">>
      [] string = "node3" -> <<"n", "o", "d", "e", "3">>
      [] string = "node9" -> <<"n", "o", "d", "e", "9">>
      [] string = "no_de" -> <<"n", "o", "_", "d", "e">>
      [] string = "net0"  -> <<"n", "e", "t", "0">>
      [] string = ""      -> << >>

\* ArgumentValidator.validate_hostname: "ok", or "TypeError"
validate_hostname(hostname) ==
    IF Len(hostname) > 255 \/ Len(hostname) = 0 THEN "TypeError"
    ELSE IF \E i \in DOMAIN hostname : hostname[i] \notin Letters \cup Digits \cup {"-"}
    THEN "TypeError"
    ELSE IF hostname[1] = "-" \/ hostname[Len(hostname)] = "-" THEN "TypeError"
    ELSE "ok"

\* ArgumentValidator.validate_integer, of an int: str(int(value)) is str(value)
validate_integer(value) == "ok"

\* ArgumentValidator.validate_positive_integer
validate_positive_integer(value) ==
    IF validate_integer(value) # "ok" THEN "TypeError"
    ELSE IF value < 1 THEN "TypeError"
    ELSE "ok"

\* ArgumentValidator.validate_network_name
validate_network_name(name) == IF Len(name) = 0 THEN "TypeError" ELSE "ok"

\* GraphicsDriver: the values
GraphicsDriver == {"vga", "cirrus", "vmvga", "xen", "vbox", "qxl"}

\* Factory.DEFAULT_GRAPHICS_DRIVER
DEFAULT_GRAPHICS_DRIVER == "vmvga"

\* hard_drive_factory.STORAGE_TYPES: the class names
STORAGE_TYPES == {"Local", "Drbd"}

\* mcvirt.virtual_machine.hard_drive.base.Driver: the member names
HardDriveDriver == {"VIRTIO", "IDE", "SCSI", "USB", "SATA", "SD"}

\* node_drbd.CLUSTER_SIZE
CLUSTER_SIZE == 2

\* hard_drive_factory.ensure_hdd_valid: a disk larger than the free space of
\* the nodes cannot be created
FreeSpace == 50
ensure_hdd_valid(hard_drive_size, storage_type, remote_nodes) ==
    IF hard_drive_size > FreeSpace THEN "InsufficientSpaceException" ELSE "ok"

\* cluster.get_nodes(return_all=True) on a node: its peers
get_nodes(host) == cluster_nodes[host]

\* Factory.getAllVmNames(node=None) on a node
getAllVmNames(st, host) == st.virtual_machines[host]

check_exists_Never(st, host, vm_name) == "False"

\* Factory.check_exists on a node. validate_hostname raises TypeError, which
\* the except clause (MCVirtTypeError, InvalidVirtualMachineNameException)
\* does not catch.
check_exists(st, host, vm_name) ==
    IF validate_hostname(Chars(vm_name)) # "ok" THEN "TypeError"
    ELSE IF InList(vm_name, getAllVmNames(st, host)) THEN "True" ELSE "False"

\* Factory.checkName(name) on a node: "ok", or the exception raised
checkName(st, host, name) ==
    IF validate_hostname(Chars(name)) # "ok" THEN "TypeError"
    ELSE IF Len(Chars(name)) < 3 THEN "InvalidVirtualMachineNameException"
    ELSE IF check_exists(st, host, name) = "True" THEN "VmAlreadyExistsException"
    ELSE "ok"

\* The node and the available nodes of Factory._create after their defaults
ResolvedNode(host, a) == IF a.node = "None" THEN host ELSE a.node

all_nodes_WithUnknown(host) == Append(get_nodes(host), host) \o <<"node9">>

\* all_nodes in Factory._create: the peers, then the local node
all_nodes(host) == Append(get_nodes(host), host)

ResolvedAvailableNodes(host, a) ==
    IF Len(a.available_nodes) = 0
    THEN IF a.storage_type = "Drbd" THEN all_nodes(host) ELSE <<host>>
    ELSE a.available_nodes

ResolvedGraphicsDriver(a) ==
    IF a.graphics_driver = "None" THEN DEFAULT_GRAPHICS_DRIVER ELSE a.graphics_driver

\* Factory._create up to the creation of the directory, on a node: "ok", or
\* the exception raised
createGates(st, host, is_cluster_master, cluster_disabled, a) ==
    LET available_nodes == ResolvedAvailableNodes(host, a)
    IN  IF checkName(st, host, a.name) # "ok" THEN checkName(st, host, a.name)
        ELSE IF validate_positive_integer(a.cpu_cores) # "ok" THEN "TypeError"
        ELSE IF validate_positive_integer(a.memory_allocation) # "ok" THEN "TypeError"
        ELSE IF \E i \in DOMAIN a.hard_drives :
                    validate_positive_integer(a.hard_drives[i]) # "ok"
        THEN "TypeError"
        ELSE IF \E i \in DOMAIN a.network_interfaces :
                    validate_network_name(Chars(a.network_interfaces[i])) # "ok"
        THEN "TypeError"
        ELSE IF a.node # "None" /\ validate_hostname(Chars(a.node)) # "ok"
        THEN "TypeError"
        ELSE IF \E i \in DOMAIN a.available_nodes :
                    validate_hostname(Chars(a.available_nodes[i])) # "ok"
        THEN "TypeError"
        ELSE IF a.storage_type \notin {"None"} \cup STORAGE_TYPES THEN "AssertionError"
        ELSE IF a.hard_drive_driver # "None" /\ a.hard_drive_driver \notin HardDriveDriver
        THEN "KeyError"
        ELSE IF ResolvedGraphicsDriver(a) \notin GraphicsDriver
        THEN "InvalidGraphicsDriverException"
        ELSE IF cluster_disabled THEN "ClusterNotInitialisedException"
        ELSE IF check_exists(st, host, a.name) = "True" THEN "VmAlreadyExistsException"
        ELSE IF a.storage_type = "Drbd" /\ ~st.drbd_enabled[host]
        THEN "DrbdNotEnabledOnNode"
        ELSE IF a.name \in st.vm_dirs[host] THEN "VmDirectoryAlreadyExistsException"
        ELSE IF a.storage_type = "Drbd" /\ Len(available_nodes) # CLUSTER_SIZE
        THEN "InvalidNodesException"
        ELSE IF \E i \in DOMAIN available_nodes :
                    ~InList(available_nodes[i], all_nodes(host))
        THEN "NodeDoesNotExistException"
        ELSE IF ~InList(host, available_nodes) /\ is_cluster_master
        THEN "InvalidNodesException"
        ELSE IF /\ is_cluster_master
                /\ \E i \in DOMAIN a.hard_drives :
                     ensure_hdd_valid(a.hard_drives[i], a.storage_type,
                        SelectSeq(available_nodes, LAMBDA node_itx : node_itx # host))
                       # "ok"
        THEN "InsufficientSpaceException"
        ELSE "ok"

\* VirtualMachineConfig.create: the configuration record of a new VM
VirtualMachineConfig_create(available_nodes, cpu_cores, memory_allocation, graphics_driver) ==
    [available_nodes |-> available_nodes, cpu_cores |-> cpu_cores,
     memory_allocation |-> memory_allocation, graphics_driver |-> graphics_driver,
     node |-> "None", hard_disks |-> << >>, network_interfaces |-> << >>,
     modification_flags |-> << >>]

\* Factory._create from makedirs to VirtualMachineConfig.create, on a node
Step(node, step) == [node |-> node, step |-> step]

createCommit(st, host, a) ==
    [st EXCEPT
        !.steps = @ \o <<Step(host, "makedirs"), Step(host, "name_list"),
                         Step(host, "config")>>,
        !.vm_dirs[host] = @ \cup {a.name},
        !.virtual_machines[host] = Append(@, a.name),
        !.vm_config[host] =
            DictSet(@, a.name,
                    VirtualMachineConfig_create(ResolvedAvailableNodes(host, a),
                                                a.cpu_cores, a.memory_allocation,
                                                ResolvedGraphicsDriver(a)))]

\* Factory.getVirtualMachineByName on a node: the cache after the call
getVirtualMachineByName(st, host, vm_name) ==
    IF vm_name \notin DOMAIN st.CACHED_OBJECTS[host]
    THEN [st EXCEPT !.objects_made[host] = @ + 1,
                    !.CACHED_OBJECTS[host] = DictSet(@, vm_name, st.objects_made[host] + 1)]
    ELSE st

\* Factory._create from getVirtualMachineByName to its return, on a node
createFinish(st, host, is_cluster_master, a) ==
    LET node == ResolvedNode(host, a)
        got == getVirtualMachineByName(st, host, a.name)
        placed ==
            IF node = host
            THEN [got EXCEPT
                    !.steps = Append(@, Step(host, "register")),
                    !.libvirt_domains[host] = @ \cup {a.name},
                    !.vm_config[host][a.name].node =
                        IF is_cluster_master THEN host ELSE @]
            ELSE IF is_cluster_master
            THEN [got EXCEPT !.steps = Append(@, Step(host, "set_node")),
                             !.vm_config[host][a.name].node = node]
            ELSE got
    IN  IF is_cluster_master
        THEN [placed EXCEPT
                !.steps = @ \o [i \in DOMAIN a.hard_drives |-> Step(host, "disk")]
                            \o [i \in DOMAIN a.network_interfaces |->
                                   Step(host, "network")]
                            \o <<Step(host, "flags")>>,
                !.vm_config[host][a.name].hard_disks = a.hard_drives,
                !.vm_config[host][a.name].network_interfaces = a.network_interfaces,
                !.vm_config[host][a.name].modification_flags = a.modification_flags]
        ELSE placed

\* The arguments of the create the coordinator sends to its peers
RemoteCreateArgs(host, a) ==
    [name |-> a.name, cpu_cores |-> a.cpu_cores,
     memory_allocation |-> a.memory_allocation, hard_drives |-> << >>,
     network_interfaces |-> << >>, node |-> ResolvedNode(host, a),
     available_nodes |-> ResolvedAvailableNodes(host, a), storage_type |-> "None",
     hard_drive_driver |-> "None", graphics_driver |-> "None",
     modification_flags |-> a.modification_flags]

\* Factory.create on a peer, called by the coordinator: the peer is not the
\* cluster master of the call
createOnPeer(st, peer, a) ==
    LET status == createGates(st, peer, FALSE, FALSE, a)
    IN  IF status # "ok" THEN [st EXCEPT !.status = status]
        ELSE createFinish(createCommit(st, peer, a), peer, FALSE, a)

\* cluster_object.run_remote_command(callback_method=remote_command): every
\* peer in turn, the first failure is raised
RECURSIVE run_remote_command(_, _, _, _)
run_remote_command(st, host, a, i) ==
    IF i > Len(get_nodes(host)) \/ st.status # "ok" THEN st
    ELSE LET peer == get_nodes(host)[i]
             sent == [st EXCEPT !.steps = Append(@, Step(host, "dispatch")),
                                !.dispatched =
                        Append(@, [node |-> peer,
                                   command |-> [action |-> "virtual_machine_factory.create",
                                                args |-> a]])]
         IN  run_remote_command(createOnPeer(sent, peer, a), host, a, i + 1)

create_IgnoreFailure(st, host, cluster_disabled, a) ==
    LET status == createGates(st, host, TRUE, cluster_disabled, a)
    IN  IF status # "ok" THEN [st EXCEPT !.status = status]
        ELSE createFinish(run_remote_command(createCommit(st, host, a), host,
                                             RemoteCreateArgs(host, a), 1),
                          host, TRUE, a)

create_FinishFirst(st, host, cluster_disabled, a) ==
    LET status == createGates(st, host, TRUE, cluster_disabled, a)
    IN  IF status # "ok" THEN [st EXCEPT !.status = status]
        ELSE run_remote_command(createFinish(createCommit(st, host, a), host, TRUE, a),
                                host, RemoteCreateArgs(host, a), 1)

create_CommitFirst(st, host, cluster_disabled, a) ==
    LET status == createGates(st, host, TRUE, cluster_disabled, a)
    IN  IF status # "ok" THEN [createCommit(st, host, a) EXCEPT !.status = status]
        ELSE LET replicated == run_remote_command(createCommit(st, host, a), host,
                                                  RemoteCreateArgs(host, a), 1)
             IN  IF replicated.status # "ok" THEN replicated
                 ELSE createFinish(replicated, host, TRUE, a)

\* Factory._create on the node a user calls it on (the cluster master)
create_(st, host, cluster_disabled, a) ==
    LET status == createGates(st, host, TRUE, cluster_disabled, a)
    IN  IF status # "ok" THEN [st EXCEPT !.status = status]
        ELSE LET replicated == run_remote_command(createCommit(st, host, a), host,
                                                  RemoteCreateArgs(host, a), 1)
             IN  IF replicated.status # "ok" THEN replicated
                 ELSE createFinish(replicated, host, TRUE, a)

\* Factory._create from makedirs to its return, on the cluster master
CommitAndFinish(st, host, a) ==
    LET replicated == run_remote_command(createCommit(st, host, a), host,
                                         RemoteCreateArgs(host, a), 1)
    IN  IF replicated.status # "ok" THEN replicated
        ELSE createFinish(replicated, host, TRUE, a)

\* Factory.create: the permission check, then _create
create(st, SUDO_USER, host, cluster_disabled, a) ==
    IF assertPermission(SUDO_USER, "CREATE_VM", "None") # "True"
    THEN [st EXCEPT !.status = "PermissionError"]
    ELSE create_(st, host, cluster_disabled, a)

\* The state Factory.create reads and writes
CreateState ==
    [vm_dirs |-> vm_dirs, virtual_machines |-> virtual_machines,
     vm_config |-> vm_config, libvirt_domains |-> libvirt_domains,
     CACHED_OBJECTS |-> CACHED_OBJECTS, objects_made |-> objects_made,
     drbd_enabled |-> drbd_enabled, dispatched |-> << >>, steps |-> << >>,
     status |-> "ok"]

\* The permission check and the gates of a call, in the current state
GateStatus(call) ==
    IF assertPermission(call.SUDO_USER, "CREATE_VM", "None") # "True"
    THEN "PermissionError"
    ELSE createGates(CreateState, call.host, TRUE, call.cluster_disabled, call.args)

\* The arguments of the calls of create
CreateArgs ==
    [name : {"vm1", "ab"}, cpu_cores : {1}, memory_allocation : {512},
     hard_drives : {<<10>>}, network_interfaces : {<<"net0">>},
     node : {"None", "node2"},
     available_nodes : {<< >>, <<"node1", "node2">>},
     storage_type : {"Local", "Drbd"}, hard_drive_driver : {"None"},
     graphics_driver : {"None"}, modification_flags : {<< >>}]

CreateCallers == {"alice", "carol"}

\* A call of Factory.create by a user, on a node
CreateCall(SUDO_USER, host, cluster_disabled, a) ==
    /\ \E r \in {create(CreateState, SUDO_USER, host, cluster_disabled, a)} :
           /\ vm_dirs' = r.vm_dirs
           /\ virtual_machines' = r.virtual_machines
           /\ vm_config' = r.vm_config
           /\ libvirt_domains' = r.libvirt_domains
           /\ CACHED_OBJECTS' = r.CACHED_OBJECTS
           /\ objects_made' = r.objects_made
           /\ dispatched' = r.dispatched
           /\ created' = IF r.status = "ok" THEN created \cup {a.name} ELSE created
           /\ ret' = [op |-> "create", SUDO_USER |-> SUDO_USER, host |-> host,
                      cluster_disabled |-> cluster_disabled, args |-> a,
                      name |-> a.name, storage_type |-> a.storage_type,
                      node |-> a.node, available_nodes |-> a.available_nodes,
                      steps |-> r.steps, status |-> r.status, n |-> Toggle]
    /\ UNCHANGED <<sessVars, superusers, permissions, initialise_nodes, drbd_enabled,
                   cluster_nodes, concVars>>

Create ==
    \E SUDO_USER \in CreateCallers, host \in Nodes, cluster_disabled \in BOOLEAN,
       a \in CreateArgs :
       CreateCall(SUDO_USER, host, cluster_disabled, a)

\* No VM exists; a directory named vm1 may be left over on node3.
CreateInit ==
    /\ SessionIdle
    /\ ThreadsIdle
    /\ superusers = <<"carol">>
    /\ permissions = [node \in Nodes |-> [scope \in Scopes |-> EmptyConfig]]
    /\ initialise_nodes = TRUE
    /\ dispatched = << >>
    /\ vm_dirs \in {[node \in Nodes |-> {}],
                    [node \in Nodes |-> IF node = "node3" THEN {"vm1"} ELSE {}]}
    /\ virtual_machines = [node \in Nodes |-> << >>]
    /\ vm_config = [node \in Nodes |-> << >>]
    /\ libvirt_domains = [node \in Nodes |-> {}]
    /\ CACHED_OBJECTS = [node \in Nodes |-> << >>]
    /\ objects_made = [node \in Nodes |-> 0]
    /\ drbd_enabled = [node \in Nodes |-> TRUE]
    /\ cluster_nodes = FullCluster
    /\ created = {}
    /\ ret = NoCall

CreateNext == Create

CreateSpec == CreateInit /\ [][CreateNext]_vars

\* The arguments of an ordinary create, and the calls that differ from it in
\* one respect (or in two that only matter together)
BaseArgs ==
    [name |-> "vm1", cpu_cores |-> 1, memory_allocation |-> 512,
     hard_drives |-> <<10>>, network_interfaces |-> <<"net0">>, node |-> "None",
     available_nodes |-> << >>, storage_type |-> "Local",
     hard_drive_driver |-> "None", graphics_driver |-> "None",
     modification_flags |-> << >>]

DrbdArgs == [BaseArgs EXCEPT !.storage_type = "Drbd"]

VariantArgs ==
    {BaseArgs, DrbdArgs}
    \cup {[BaseArgs EXCEPT !.name = x] : x \in {"ab", "-vm"}}
    \cup {[BaseArgs EXCEPT !.cpu_cores = 0], [BaseArgs EXCEPT !.memory_allocation = 0]}
    \cup {[BaseArgs EXCEPT !.hard_drives = x] : x \in {<<0>>, <<60>>, << >>, <<10, 20>>}}
    \cup {[BaseArgs EXCEPT !.network_interfaces = x] : x \in {<<"">>, << >>}}
    \cup {[BaseArgs EXCEPT !.node = x] : x \in {"no_de", "node2", "node9"}}
    \cup {[BaseArgs EXCEPT !.available_nodes = x] :
            x \in {<<"no_de">>, <<"node1", "node2">>, <<"node1", "node9">>,
                   <<"node2", "node3">>}}
    \cup {[BaseArgs EXCEPT !.node = "node3", !.available_nodes = <<"node1", "node2">>]}
    \cup {[BaseArgs EXCEPT !.storage_type = x] : x \in {"None", "Ceph"}}
    \cup {[DrbdArgs EXCEPT !.available_nodes = x] :
            x \in {<<"node1">>, <<"node1", "node2">>, <<"node2", "node3">>}}
    \cup {[DrbdArgs EXCEPT !.available_nodes = <<"node1", "node1">>,
                           !.hard_drives = << >>]}
    \cup {[DrbdArgs EXCEPT !.available_nodes = <<"node1", "node2">>, !.node = "node2"]}
    \cup {[BaseArgs EXCEPT !.hard_drive_driver = x] : x \in {"IDE", "FOO"}}
    \cup {[BaseArgs EXCEPT !.graphics_driver = x] : x \in {"cirrus", "bad"}}
    \cup {[BaseArgs EXCEPT !.modification_flags = <<"flag">>]}

CreateCalls ==
    {[SUDO_USER |-> "carol", host |-> "node1", cluster_disabled |-> FALSE, args |-> a] :
        a \in VariantArgs}
    \cup {[SUDO_USER |-> "alice", host |-> "node1", cluster_disabled |-> FALSE,
           args |-> BaseArgs],
          [SUDO_USER |-> "carol", host |-> "node1", cluster_disabled |-> TRUE,
           args |-> BaseArgs]}
    \cup {[SUDO_USER |-> "carol", host |-> host, cluster_disabled |-> FALSE, args |-> a] :
            host \in {"node2", "node3"},
            a \in {BaseArgs, [BaseArgs EXCEPT !.node = "node1"]}}

CreateVariant ==
    \E call \in CreateCalls :
       CreateCall(call.SUDO_USER, call.host, call.cluster_disabled, call.args)

\* No VM exists; a directory named vm1 may be left over on one node, or DRBD
\* may be disabled on node1.
OrchestratorInit ==
    /\ SessionIdle
    /\ ThreadsIdle
    /\ superusers = <<"carol">>
    /\ permissions = [node \in Nodes |-> [scope \in Scopes |-> EmptyConfig]]
    /\ initialise_nodes = TRUE
    /\ dispatched = << >>
    /\ \E stray \in Nodes \cup {"None"}, drbd_off \in {"None", "node1"} :
          /\ stray = "None" \/ drbd_off = "None"
          /\ vm_dirs = [node \in Nodes |-> IF node = stray THEN {"vm1"} ELSE {}]
          /\ drbd_enabled = [node \in Nodes |-> node # drbd_off]
          /\ cluster_nodes = FullCluster
    /\ virtual_machines = [node \in Nodes |-> << >>]
    /\ vm_config = [node \in Nodes |-> << >>]
    /\ libvirt_domains = [node \in Nodes |-> {}]
    /\ CACHED_OBJECTS = [node \in Nodes |-> << >>]
    /\ objects_made = [node \in Nodes |-> 0]
    /\ created = {}
    /\ ret = NoCall

OrchestratorNext == CreateVariant

OrchestratorSpec == OrchestratorInit /\ [][OrchestratorNext]_vars

\* ---------------------------------------------------- placement in a cluster
\* The cluster configuration when node1 and node2 are each other's only peer
\* and node3 has no peer
PairCluster ==
    [node \in Nodes |->
        SelectSeq(<<"node1", "node2">>, LAMBDA peer : node # "node3" /\ peer # node)]

\* No VM exists; the cluster has three nodes, or two and a node on its own.
PlacementInit ==
    /\ SessionIdle
    /\ AuthIdle
    /\ ThreadsIdle
    /\ vm_dirs = [node \in Nodes |-> {}]
    /\ virtual_machines = [node \in Nodes |-> << >>]
    /\ vm_config = [node \in Nodes |-> << >>]
    /\ libvirt_domains = [node \in Nodes |-> {}]
    /\ CACHED_OBJECTS = [node \in Nodes |-> << >>]
    /\ objects_made = [node \in Nodes |-> 0]
    /\ drbd_enabled = [node \in Nodes |-> TRUE]
    /\ cluster_nodes \in {FullCluster, PairCluster}
    /\ created = {}
    /\ ret = NoCall

PlacementNext == CreateVariant

PlacementSpec == PlacementInit /\ [][PlacementNext]_vars

\* ------------------------------------------- concurrent lookups of a handle
\* Factory.getVirtualMachineByName is exposed without locking; the threads of
\* the daemon on node1 run it line by line. Handles are numbered from 1 in
\* the order of their construction; 0 is no handle.
SetThread(t, value) == [threads EXCEPT ![t] = value]

\* A call arrives: validate_hostname (factory.py:82) passes for these names
GetVmCall(t) ==
    /\ threads[t].pc = "idle"
    /\ \E vm_name \in VmNames :
          /\ validate_hostname(Chars(vm_name)) = "ok"
          /\ threads' = SetThread(t, [pc |-> "check", op |-> "getVirtualMachineByName",
                                      node |-> LocalNode, vm_name |-> vm_name,
                                      vm_object |-> 0])
    /\ UNCHANGED <<sessVars, authVars, vmVars, lock, ret>>

\* if vm_name not in Factory.CACHED_OBJECTS
GetVmCheck(t) ==
    /\ threads[t].pc = "check"
    /\ threads' = SetThread(t, [threads[t] EXCEPT !.pc =
            IF threads[t].vm_name \notin DOMAIN CACHED_OBJECTS[threads[t].node]
            THEN "construct" ELSE "return"])
    /\ UNCHANGED <<sessVars, authVars, vmVars, lock, ret>>

\* vm_object = VirtualMachine(self, vm_name); self._register_object(vm_object)
GetVmConstruct(t) ==
    /\ threads[t].pc = "construct"
    /\ objects_made' = [objects_made EXCEPT ![threads[t].node] = @ + 1]
    /\ threads' = SetThread(t, [threads[t] EXCEPT
                                  !.pc = "store",
                                  !.vm_object = objects_made[threads[t].node] + 1])
    /\ UNCHANGED <<sessVars, authVars, vm_dirs, virtual_machines, vm_config,
                   libvirt_domains, CACHED_OBJECTS, drbd_enabled, cluster_nodes, created, lock, ret>>

\* Factory.CACHED_OBJECTS[vm_name] = vm_object
GetVmStore(t) ==
    /\ threads[t].pc = "store"
    /\ CACHED_OBJECTS' = [CACHED_OBJECTS EXCEPT ![threads[t].node] =
                            DictSet(@, threads[t].vm_name, threads[t].vm_object)]
    /\ threads' = SetThread(t, [threads[t] EXCEPT !.pc = "return"])
    /\ UNCHANGED <<sessVars, authVars, vm_dirs, virtual_machines, vm_config,
                   libvirt_domains, objects_made, drbd_enabled, cluster_nodes, created, lock, ret>>

\* return Factory.CACHED_OBJECTS[vm_name]
GetVmReturn(t) ==
    /\ threads[t].pc = "return"
    /\ ret' = [op |-> "getVirtualMachineByName", thread |-> t,
               node |-> threads[t].node, vm_name |-> threads[t].vm_name,
               value |-> CACHED_OBJECTS[threads[t].node][threads[t].vm_name],
               status |-> "ok", n |-> Toggle]
    /\ threads' = SetThread(t, Idle)
    /\ UNCHANGED <<sessVars, authVars, vmVars, lock>>

LookupInit ==
    /\ SessionIdle
    /\ AuthIdle
    /\ VmIdle
    /\ ThreadsIdle
    /\ ret = NoCall

LookupNext ==
    \E t \in Threads :
       \/ GetVmCall(t)
       \/ GetVmCheck(t)
       \/ GetVmConstruct(t)
       \/ GetVmStore(t)
       \/ GetVmReturn(t)

LookupSpec == LookupInit /\ [][LookupNext]_vars

\* ------------------------------------------------ concurrent calls of create
\* Factory.create is exposed with locking=True: a call runs while it holds the
\* lock of the locking methods, and a call that finds the lock held waits.
LockFree(holder) == holder = "None"

\* The state Factory.create reads and writes, as a thread finds it
WriteCreateState(r) ==
    /\ vm_dirs' = r.vm_dirs
    /\ virtual_machines' = r.virtual_machines
    /\ vm_config' = r.vm_config
    /\ libvirt_domains' = r.libvirt_domains
    /\ CACHED_OBJECTS' = r.CACHED_OBJECTS
    /\ objects_made' = r.objects_made
    /\ dispatched' = r.dispatched

\* A call of create arrives and takes the lock
CreateEnter(t) ==
    /\ threads[t].pc = "idle"
    /\ LockFree(lock)
    /\ lock' = t
    /\ \E host \in Nodes, name \in VmNames :
          threads' = SetThread(t, [pc |-> "gates", op |-> "create",
                                   SUDO_USER |-> "carol", host |-> host,
                                   cluster_disabled |-> FALSE,
                                   args |-> [BaseArgs EXCEPT !.name = name],
                                   steps |-> << >>, status |-> "ok"])
    /\ UNCHANGED <<sessVars, authVars, vmVars, ret>>

\* The permission check and the gates of _create (factory.py:182, 194-280)
CreateGates(t) ==
    /\ threads[t].pc = "gates"
    /\ LET status == GateStatus(threads[t])
       IN  threads' = SetThread(t, [threads[t] EXCEPT
                                      !.status = status,
                                      !.pc = IF status = "ok" THEN "commit" ELSE "exit"])
    /\ UNCHANGED <<sessVars, authVars, vmVars, lock, ret>>

\* The commit, the replication and the rest of _create (factory.py:283-341)
CreateCommit(t) ==
    /\ threads[t].pc = "commit"
    /\ \E r \in {CommitAndFinish(CreateState, threads[t].host, threads[t].args)} :
          /\ WriteCreateState(r)
          /\ threads' = SetThread(t, [threads[t] EXCEPT !.pc = "exit",
                                                        !.steps = r.steps,
                                                        !.status = r.status])
    /\ UNCHANGED <<sessVars, superusers, permissions, initialise_nodes, drbd_enabled,
                   cluster_nodes, created, lock, ret>>

\* The call returns or raises, and the lock is released
CreateExit(t) ==
    /\ threads[t].pc = "exit"
    /\ lock' = IF lock = t THEN "None" ELSE lock
    /\ created' = IF threads[t].status = "ok"
                  THEN created \cup {threads[t].args.name} ELSE created
    /\ ret' = [op |-> "create", thread |-> t, SUDO_USER |-> threads[t].SUDO_USER,
               host |-> threads[t].host, name |-> threads[t].args.name,
               steps |-> threads[t].steps, status |-> threads[t].status, n |-> Toggle]
    /\ threads' = SetThread(t, Idle)
    /\ UNCHANGED <<sessVars, authVars, vm_dirs, virtual_machines, vm_config,
                   libvirt_domains, CACHED_OBJECTS, objects_made, drbd_enabled,
                   cluster_nodes>>

\* No VM exists; a directory named vm1 may be left over on node2.
CreateLockInit ==
    /\ SessionIdle
    /\ AuthIdle
    /\ ThreadsIdle
    /\ vm_dirs \in {[node \in Nodes |-> {}],
                    [node \in Nodes |-> IF node = "node2" THEN {"vm1"} ELSE {}]}
    /\ virtual_machines = [node \in Nodes |-> << >>]
    /\ vm_config = [node \in Nodes |-> << >>]
    /\ libvirt_domains = [node \in Nodes |-> {}]
    /\ CACHED_OBJECTS = [node \in Nodes |-> << >>]
    /\ objects_made = [node \in Nodes |-> 0]
    /\ drbd_enabled = [node \in Nodes |-> TRUE]
    /\ cluster_nodes = FullCluster
    /\ created = {}
    /\ ret = NoCall

CreateLockNext ==
    \E t \in Threads :
       \/ CreateEnter(t)
       \/ CreateGates(t)
       \/ CreateCommit(t)
       \/ CreateExit(t)

CreateLockSpec == CreateLockInit /\ [][CreateLockNext]_vars

\* ------------------------------------- concurrent additions to a group
\* A call of addUserPermissionGroup arrives and takes the lock
AddEnter(t) ==
    /\ threads[t].pc = "idle"
    /\ LockFree(lock)
    /\ lock' = t
    /\ \E SUDO_USER \in {"alice", "carol"}, permission_group \in {"user", "owner"},
          vm_object \in ManagedScopes, ignore_duplicate \in BOOLEAN :
          threads' = SetThread(t, [pc |-> "check", op |-> "addUserPermissionGroup",
                                   SUDO_USER |-> SUDO_USER,
                                   permission_group |-> permission_group,
                                   username |-> "bob", vm_object |-> vm_object,
                                   ignore_duplicate |-> ignore_duplicate,
                                   status |-> "ok"])
    /\ UNCHANGED <<sessVars, authVars, vmVars, ret>>

AddCheck_NoMembershipTest(t) ==
    /\ threads[t].pc = "check"
    /\ LET call == threads[t]
           users == getUsersInPermissionGroup(permissions, LocalNode,
                                              call.permission_group, call.vm_object)
           raises == \/ addAuthorised(call.SUDO_USER, call.permission_group,
                                      call.vm_object) = "error"
                     \/ users = "error"
       IN  threads' = SetThread(t,
               IF raises THEN [call EXCEPT !.pc = "exit", !.status = "error"]
               ELSE [call EXCEPT !.pc = "append"])
    /\ UNCHANGED <<sessVars, authVars, vmVars, lock, ret>>

\* The authorisation test and the membership test (auth.py:165-179)
AddCheck(t) ==
    /\ threads[t].pc = "check"
    /\ LET call == threads[t]
           users == getUsersInPermissionGroup(permissions, LocalNode,
                                              call.permission_group, call.vm_object)
           raises == \/ addAuthorised(call.SUDO_USER, call.permission_group,
                                      call.vm_object) = "error"
                     \/ users = "error"
       IN  threads' = SetThread(t,
               IF raises THEN [call EXCEPT !.pc = "exit", !.status = "error"]
               ELSE IF ~InList(call.username, users) THEN [call EXCEPT !.pc = "append"]
               ELSE [call EXCEPT !.pc = "exit",
                                 !.status = IF call.ignore_duplicate THEN "ok"
                                            ELSE "error"])
    /\ UNCHANGED <<sessVars, authVars, vmVars, lock, ret>>

\* config_object.updateConfig(addUserToConfig, ...) (auth.py:182-186)
AddAppend(t) ==
    /\ threads[t].pc = "append"
    /\ permissions' = [permissions EXCEPT ![LocalNode][threads[t].vm_object] =
                          addUserToConfig(@, threads[t].permission_group,
                                          threads[t].username)]
    /\ threads' = SetThread(t, [threads[t] EXCEPT
                                  !.pc = IF initialise_nodes THEN "replicate"
                                         ELSE "exit"])
    /\ UNCHANGED <<sessVars, superusers, initialise_nodes, dispatched, vmVars, lock, ret>>

\* The remote commands (auth.py:188-197)
AddReplicate(t) ==
    /\ threads[t].pc = "replicate"
    /\ \E r \in {addReplicateFrom(
                    [permissions |-> permissions, dispatched |-> << >>, status |-> "ok"],
                    [action |-> "auth-addUserPermissionGroup",
                     permission_group |-> threads[t].permission_group,
                     username |-> threads[t].username,
                     vm_name |-> threads[t].vm_object], 1)} :
          /\ permissions' = r.permissions
          /\ dispatched' = r.dispatched
          /\ threads' = SetThread(t, [threads[t] EXCEPT !.pc = "exit",
                                                        !.status = r.status])
    /\ UNCHANGED <<sessVars, superusers, initialise_nodes, vmVars, lock, ret>>

\* The call returns or raises, and the lock is released
AddExit(t) ==
    /\ threads[t].pc = "exit"
    /\ lock' = IF lock = t THEN "None" ELSE lock
    /\ ret' = [op |-> "addUserPermissionGroup", thread |-> t,
               SUDO_USER |-> threads[t].SUDO_USER,
               permission_group |-> threads[t].permission_group,
               username |-> threads[t].username, vm_object |-> threads[t].vm_object,
               ignore_duplicate |-> threads[t].ignore_duplicate,
               status |-> threads[t].status, n |-> Toggle]
    /\ threads' = SetThread(t, Idle)
    /\ UNCHANGED <<sessVars, authVars, vmVars>>

\* alice may own vm1; every node starts with the same configurations.
AddLockInit ==
    /\ SessionIdle
    /\ ThreadsIdle
    /\ VmIdle
    /\ superusers = <<"carol">>
    /\ \E vm \in {EmptyConfig, OwnedByAlice} :
         permissions = [node \in Nodes |-> [scope \in Scopes |->
                          IF scope = "vm1" THEN vm ELSE EmptyConfig]]
    /\ initialise_nodes \in BOOLEAN
    /\ dispatched = << >>
    /\ ret = NoCall

AddLockNext ==
    \E t \in Threads :
       \/ AddEnter(t)
       \/ AddCheck(t)
       \/ AddAppend(t)
       \/ AddReplicate(t)
       \/ AddExit(t)

AddLockSpec == AddLockInit /\ [][AddLockNext]_vars

\* ------------------------------------------------- DRBD resource names
\* Strings are sequences of characters. A Python object handed to a validator
\* is a str or a tuple.
Str(chars) == [type |-> "str", value |-> chars]
Tuple(items) == [type |-> "tuple", value |-> items]

\* "mcvirt_vm-" and "-disk-" of the pattern of validate_drbd_resource
ResourcePrefix == <<"m", "c", "v", "i", "r", "t", "_", "v", "m", "-">>
DiskMark == <<"-", "d", "i", "s", "k", "-">>

StartsWith(string, prefix) ==
    /\ Len(string) >= Len(prefix)
    /\ SubSeq(string, 1, Len(prefix)) = prefix

EndsWith(string, suffix) ==
    /\ Len(string) >= Len(suffix)
    /\ SubSeq(string, Len(string) - Len(suffix) + 1, Len(string)) = suffix

\* The length of the longest run of digits that ends the string
RECURSIVE TrailingDigits(_)
TrailingDigits(string) ==
    IF Len(string) = 0 \/ string[Len(string)] \notin Digits THEN 0
    ELSE 1 + TrailingDigits(SubSeq(string, 1, Len(string) - 1))

DigitValue(char) ==
    CASE char = "0" -> 0 [] char = "1" -> 1 [] char = "2" -> 2 [] char = "3" -> 3
      [] char = "4" -> 4 [] char = "5" -> 5 [] char = "6" -> 6 [] char = "7" -> 7
      [] char = "8" -> 8 [] char = "9" -> 9

\* int(digits)
RECURSIVE int(_)
int(digits) ==
    IF Len(digits) = 0 THEN 0
    ELSE 10 * int(SubSeq(digits, 1, Len(digits) - 1)) + DigitValue(digits[Len(digits)])

\* re.compile('^mcvirt_vm-(.*)-disk-(\d+)$').match(variable): None, or the
\* two groups. $ matches at the end and before a newline that ends the
\* string; . matches no newline; -disk- ends in a non-digit, so (\d+) is the
\* whole run of digits before $.
valid_name_match(variable) ==
    LET body == IF Len(variable) > 0 /\ variable[Len(variable)] = "\n"
                THEN SubSeq(variable, 1, Len(variable) - 1) ELSE variable
        digits == TrailingDigits(body)
        head == SubSeq(body, 1, Len(body) - digits)
        group1 == SubSeq(head, Len(ResourcePrefix) + 1, Len(head) - Len(DiskMark))
    IN  IF /\ digits >= 1
           /\ Len(head) >= Len(ResourcePrefix) + Len(DiskMark)
           /\ StartsWith(head, ResourcePrefix)
           /\ EndsWith(head, DiskMark)
           /\ \A i \in DOMAIN group1 : group1[i] # "\n"
        THEN [matched |-> TRUE,
              groups |-> <<group1, SubSeq(body, Len(body) - digits + 1, Len(body))>>]
        ELSE [matched |-> FALSE, groups |-> << >>]

\* ArgumentValidator.validate_hostname of a Python object: len() counts the
\* items of a tuple, and disallowed.search() of an object that is not a
\* string raises TypeError (expected string or buffer)
validate_hostname_object(hostname) ==
    IF hostname.type = "str" THEN validate_hostname(hostname.value)
    ELSE IF Len(hostname.value) > 255 \/ Len(hostname.value) = 0 THEN "TypeError"
    ELSE "TypeError"

\* ArgumentValidator.validate_drbd_resource: result.groups(1) is the tuple of
\* both groups
validate_drbd_resource(variable) ==
    LET result == valid_name_match(variable)
    IN  IF ~result.matched THEN "TypeError"
        ELSE IF validate_hostname_object(Tuple(result.groups)) # "ok" THEN "TypeError"
        ELSE IF int(result.groups[2]) < 1 \/ int(result.groups[2]) > 99 THEN "TypeError"
        ELSE "ok"

\* The strings given to the validator: a prefix, a hostname, a mark, an index
\* and an end
ResourceNames ==
    {prefix \o hostname \o mark \o index \o end :
        prefix \in {ResourcePrefix, <<"m", "c", "v", "_", "v", "m", "-">>, << >>},
        hostname \in {<<"w", "1">>, <<"-", "w">>, <<"a", "_", "b">>, << >>,
                      <<"a">> \o DiskMark \o <<"1">>},
        mark \in {DiskMark, <<"-", "d", "s", "k", "-">>},
        index \in {<<"0">>, <<"1">>, <<"3">>, <<"9", "9">>, <<"1", "0", "0">>,
                   <<"0", "7">>, << >>, <<"x">>},
        end \in {<< >>, <<"\n">>}}

ValidateDrbdResource ==
    /\ \E variable \in ResourceNames :
          ret' = [op |-> "validate_drbd_resource", variable |-> variable,
                  status |-> validate_drbd_resource(variable), n |-> Toggle]
    /\ UNCHANGED <<sessVars, authVars, vmVars, concVars>>

ValidatorInit ==
    /\ SessionIdle
    /\ AuthIdle
    /\ VmIdle
    /\ ThreadsIdle
    /\ ret = NoCall

ValidatorNext == ValidateDrbdResource

ValidatorSpec == ValidatorInit /\ [][ValidatorNext]_vars

\* time.time() advances between calls
Tick ==
    /\ now < MaxTime
    /\ now' = now + 1
    /\ UNCHANGED <<USER_SESSIONS, ret>>
    /\ UNCHANGED <<authVars, vmVars, concVars>>

AuthenticateUser ==
    /\ \E username \in Usernames, password \in Passwords :
          authenticate_user(username, password)
    /\ UNCHANGED <<authVars, vmVars, concVars>>

AuthenticateSession ==
    /\ \E username \in Usernames, session \in SessionIds :
          authenticate_session(username, session)
    /\ UNCHANGED <<authVars, vmVars, concVars>>

SessionInit ==
    /\ now = 1
    /\ USER_SESSIONS = << >>
    /\ ret = NoCall
    /\ AuthIdle
    /\ VmIdle
    /\ ThreadsIdle

SessionNext ==
    \/ Tick
    \/ AuthenticateUser
    \/ AuthenticateSession

SessionSpec == SessionInit /\ [][SessionNext]_vars

\* --------------------------------------------------- the user of a call
\* A call of get_current_user_object or get_proxy_user_object in a context
ContextCall(op, context, result) ==
    /\ ret' = [op |-> op, session_id |-> context.session_id,
               proxy_user |-> context.proxy_user,
               status |-> IF result \in Errors THEN result ELSE "ok",
               value |-> IF result \in Errors THEN "None" ELSE result, n |-> Toggle]
    /\ UNCHANGED <<sessVars, authVars, vmVars, concVars>>

GetCurrentUserObject ==
    \E context \in Contexts :
       ContextCall("get_current_user_object", context, get_current_user_object(context))

GetProxyUserObject ==
    \E context \in Contexts :
       ContextCall("get_proxy_user_object", context, get_proxy_user_object(context))

ContextNext ==
    \/ Tick
    \/ AuthenticateUser
    \/ AuthenticateSession
    \/ GetCurrentUserObject
    \/ GetProxyUserObject

ContextSpec == SessionInit /\ [][ContextNext]_vars

\* ------------------------------------- concurrent calls on the session table
\* Session.authenticate_session takes no lock; the threads of the daemon run
\* it one access to Session.USER_SESSIONS at a time.
Finish(t, status, value) ==
    /\ ret' = [op |-> threads[t].op, thread |-> t, username |-> threads[t].username,
               session |-> threads[t].session, status |-> status, value |-> value,
               n |-> Toggle]
    /\ threads' = SetThread(t, Idle)

Goto(t, pc) ==
    /\ threads' = SetThread(t, [threads[t] EXCEPT !.pc = pc])
    /\ UNCHANGED ret

\* A call of authenticate_user by a user whose sessions expire; the call
\* reads and writes the table in its one assignment (session.py:78)
AuthenticateExpiringUser ==
    /\ \E username \in {u \in Users : EXPIRE_SESSION(u)}, password \in Passwords :
          authenticate_user(username, password)
    /\ UNCHANGED <<authVars, vmVars, concVars>>

\* A call of authenticate_session arrives
AuthSessionCall(t) ==
    /\ threads[t].pc = "idle"
    /\ \E username \in {"alice", "mallory"}, session \in SessionIds :
          threads' = SetThread(t, [pc |-> "in", op |-> "authenticate_session",
                                   username |-> username, session |-> session])
    /\ UNCHANGED <<sessVars, authVars, vmVars, lock, ret>>

\* session in Session.USER_SESSIONS (session.py:93)
AuthSessionIn(t) ==
    /\ threads[t].pc = "in"
    /\ Goto(t, IF threads[t].session \in DOMAIN USER_SESSIONS
               THEN "username" ELSE "raise")
    /\ UNCHANGED <<sessVars, authVars, vmVars, lock>>

\* Session.USER_SESSIONS[session].username == username (session.py:94)
AuthSessionUsername(t) ==
    /\ threads[t].pc = "username"
    /\ IF threads[t].session \notin DOMAIN USER_SESSIONS
       THEN Finish(t, "KeyError", "None")
       ELSE Goto(t, IF USER_SESSIONS[threads[t].session].username = threads[t].username
                    THEN "is_valid" ELSE "raise")
    /\ UNCHANGED <<sessVars, authVars, vmVars, lock>>

\* Session.USER_SESSIONS[session].is_valid() (session.py:97)
AuthSessionIsValid(t) ==
    /\ threads[t].pc = "is_valid"
    /\ IF threads[t].session \notin DOMAIN USER_SESSIONS
       THEN Finish(t, "KeyError", "None")
       ELSE Goto(t, IF is_valid(USER_SESSIONS[threads[t].session], now)
                    THEN "renew" ELSE "del")
    /\ UNCHANGED <<sessVars, authVars, vmVars, lock>>

\* Session.USER_SESSIONS[session].renew() and the return (session.py:98-100)
AuthSessionRenew(t) ==
    /\ threads[t].pc = "renew"
    /\ IF threads[t].session \notin DOMAIN USER_SESSIONS
       THEN /\ Finish(t, "KeyError", "None")
            /\ UNCHANGED USER_SESSIONS
       ELSE /\ USER_SESSIONS[threads[t].session].expires + get_timeout <= MaxExpires
            /\ USER_SESSIONS' = [USER_SESSIONS EXCEPT
                                   ![threads[t].session] = renew(@)]
            /\ Finish(t, "ok", get_user_by_username(threads[t].username))
    /\ UNCHANGED <<now, authVars, vmVars, lock>>

\* del Session.USER_SESSIONS[session] (session.py:102)
AuthSessionDel(t) ==
    /\ threads[t].pc = "del"
    /\ IF threads[t].session \notin DOMAIN USER_SESSIONS
       THEN /\ Finish(t, "KeyError", "None")
            /\ UNCHANGED USER_SESSIONS
       ELSE /\ USER_SESSIONS' = DictDel(USER_SESSIONS, threads[t].session)
            /\ Goto(t, "raise")
    /\ UNCHANGED <<now, authVars, vmVars, lock>>

\* raise AuthenticationError('Invalid session ID') (session.py:104)
AuthSessionRaise(t) ==
    /\ threads[t].pc = "raise"
    /\ Finish(t, "AuthenticationError", "None")
    /\ UNCHANGED <<sessVars, authVars, vmVars, lock>>

SessionRaceInit ==
    /\ now = 1
    /\ USER_SESSIONS = << >>
    /\ ret = NoCall
    /\ AuthIdle
    /\ VmIdle
    /\ ThreadsIdle

SessionRaceNext ==
    \/ Tick
    \/ AuthenticateExpiringUser
    \/ \E t \in Threads :
          \/ AuthSessionCall(t)
          \/ AuthSessionIn(t)
          \/ AuthSessionUsername(t)
          \/ AuthSessionIsValid(t)
          \/ AuthSessionRenew(t)
          \/ AuthSessionDel(t)
          \/ AuthSessionRaise(t)

SessionRaceSpec == SessionRaceInit /\ [][SessionRaceNext]_vars

\* ------------------------------------------------------- session properties
\* A step that is a call of authenticate_session
IsAuthSessionCall == ret' # ret /\ ret'.op = "authenticate_session"

Expired(info, clock) == info.expires # 0 /\ info.expires <= clock

\* C1: authenticate_session(u, t) returns the identity of u if and only if
\* the table holds a session for t, its stored username is u and it has not
\* expired at the time of the call; in every other case it raises
\* AuthenticationError.
C1_AuthenticateSessionIff ==
    [][IsAuthSessionCall =>
        LET u == ret'.username
            t == ret'.session
            accepted == /\ t \in DOMAIN USER_SESSIONS
                        /\ USER_SESSIONS[t].username = u
                        /\ ~Expired(USER_SESSIONS[t], now)
        IN  /\ accepted => ret'.status = "ok" /\ ret'.value = u
            /\ ~accepted => ret'.status = "AuthenticationError"]_vars

C1_Witness ==
    /\ ret.op = "authenticate_session"
    /\ ret.status = "ok"
    /\ now > 1

\* C2 as stated: every call of authenticate_session presenting a token whose
\* session is in the table but has expired removes that session before
\* raising AuthenticationError (whatever username is presented).
C2_ExpiredFoundIsDeleted ==
    [][IsAuthSessionCall =>
        LET t == ret'.session
        IN  (t \in DOMAIN USER_SESSIONS /\ Expired(USER_SESSIONS[t], now))
              => /\ t \notin DOMAIN USER_SESSIONS'
                 /\ ret'.status = "AuthenticationError"]_vars

\* C2 amended: a call of authenticate_session presenting, with the session's
\* stored username, a token whose session has expired removes the session
\* and raises AuthenticationError; presented with another username the call
\* raises AuthenticationError and leaves the expired session in the table.
C2_ExpiredMatchingIsDeleted ==
    [][IsAuthSessionCall =>
        LET u == ret'.username
            t == ret'.session
        IN  (t \in DOMAIN USER_SESSIONS /\ Expired(USER_SESSIONS[t], now))
              => /\ ret'.status = "AuthenticationError"
                 /\ USER_SESSIONS[t].username = u
                      => USER_SESSIONS' = DictDel(USER_SESSIONS, t)
                 /\ USER_SESSIONS[t].username # u
                      => USER_SESSIONS' = USER_SESSIONS]_vars

\* An expired session has been presented with its username and is gone.
C2_Witness ==
    /\ ret.op = "authenticate_session"
    /\ ret.status = "AuthenticationError"
    /\ ret.username = "alice"
    /\ ret.session \notin DOMAIN USER_SESSIONS
    /\ now > get_timeout + 1
    /\ USER_SESSIONS # << >>

\* C3: once a session's expiry has passed, no later step makes it
\* authenticate again or changes its expiry (it can only be deleted), and an
\* expiry only ever grows in a successful call for that session that found
\* it still valid.
C3_ExpiredStaysExpired ==
    [][\A t \in DOMAIN USER_SESSIONS :
        /\ Expired(USER_SESSIONS[t], now)
             => /\ now' >= now
                /\ t \in DOMAIN USER_SESSIONS'
                     => USER_SESSIONS'[t] = USER_SESSIONS[t]
                /\ ~(IsAuthSessionCall /\ ret'.session = t /\ ret'.status = "ok")
        /\ (t \in DOMAIN USER_SESSIONS'
            /\ USER_SESSIONS'[t].expires # USER_SESSIONS[t].expires)
             => /\ IsAuthSessionCall /\ ret'.session = t /\ ret'.status = "ok"
                /\ USER_SESSIONS[t].expires > now
                /\ USER_SESSIONS'[t].expires > USER_SESSIONS[t].expires]_vars

\* An expired session is still in the table after a call presented it (with
\* another username) and failed.
C3_Witness ==
    /\ ret.op = "authenticate_session"
    /\ ret.status = "AuthenticationError"
    /\ ret.session \in DOMAIN USER_SESSIONS
    /\ Expired(USER_SESSIONS[ret.session], now)

\* ---------------------------------------------------- permission properties
IsCheckPermissionCall == ret' # ret /\ ret'.op = "checkPermission"

\* The groups of a configuration are all groups of PERMISSION_GROUPS
WellFormed(permission_config) ==
    \A i \in DOMAIN permission_config :
        permission_config[i].group \in DOMAIN PERMISSION_GROUPS

\* Some group of the configuration lists the user and holds the capability
Grants(permission_config, user, permission_enum) ==
    \E i \in DOMAIN permission_config :
        /\ permission_config[i].group \in DOMAIN PERMISSION_GROUPS
        /\ InList(user, permission_config[i].users)
        /\ permission_enum \in PERMISSION_GROUPS[permission_config[i].group]

\* C4: for a user that is root or is listed in the superusers, checkPermission
\* returns True for every capability and every resource (or none), whatever
\* the permission configurations hold, unknown group names included.
C4_SuperuserAlwaysPasses ==
    [][IsCheckPermissionCall =>
        LET user == IF ret'.SUDO_USER = "None" THEN "root" ELSE ret'.SUDO_USER
        IN  (user = "root" \/ InList(user, superusers))
              => ret'.status = "ok" /\ ret'.value = "True"]_vars

\* A superuser of the list passed a check for a capability of no group, on a
\* VM, with a global configuration that starts with an unknown group.
C4_Witness ==
    /\ ret.op = "checkPermission"
    /\ ret.SUDO_USER = "carol"
    /\ InList("carol", superusers)
    /\ ret.permission = "CREATE_VM"
    /\ ret.vm_object = "vm1"
    /\ permissions[LocalNode]["None"][1].group = "staff"
    /\ ~WellFormed(permissions[LocalNode]["vm1"])
    /\ ret.value = "True"

\* C5: for a non-superuser and well-formed configurations, checkPermission
\* returns True if and only if the user is listed, in the global
\* configuration or (when a VM is given) in that VM's configuration, in some
\* group that holds the capability, and False otherwise; a grant in another
\* VM's configuration only does not count.
C5_GrantedIffMember ==
    [][IsCheckPermissionCall =>
        LET user == IF ret'.SUDO_USER = "None" THEN "root" ELSE ret'.SUDO_USER
            vm == ret'.vm_object
            consulted == {"None"} \cup (IF vm = "None" THEN {} ELSE {vm})
        IN  (/\ user # "root" /\ ~InList(user, superusers)
             /\ \A scope \in consulted : WellFormed(permissions[LocalNode][scope]))
              => /\ ret'.status = "ok"
                 /\ ret'.value =
                      IF \E scope \in consulted :
                            Grants(permissions[LocalNode][scope], user, ret'.permission)
                      THEN "True" ELSE "False"]_vars

\* alice owns vm2 only and was refused MANAGE_VM_USERS on vm1.
C5_Witness ==
    /\ ret.op = "checkPermission"
    /\ ret.SUDO_USER = "alice"
    /\ ret.permission = "MANAGE_VM_USERS"
    /\ ret.vm_object = "vm1"
    /\ ret.status = "ok"
    /\ ret.value = "False"
    /\ WellFormed(permissions[LocalNode]["None"])
    /\ WellFormed(permissions[LocalNode]["vm1"])
    /\ Grants(permissions[LocalNode]["vm2"], "alice", "MANAGE_VM_USERS")

\* C6: for a non-superuser, a check over a scope whose configuration holds a
\* group name that PERMISSION_GROUPS does not define fails with an error,
\* wherever the unknown group stands and whatever other groups list the user.
C6_UnknownGroupAlwaysFails ==
    [][IsCheckPermissionCall =>
        LET user == IF ret'.SUDO_USER = "None" THEN "root" ELSE ret'.SUDO_USER
            vm == ret'.vm_object
            global == permissions[LocalNode]["None"]
        IN  (user # "root" /\ ~InList(user, superusers))
              => /\ ~WellFormed(global) => ret'.status = "error"
                 /\ (/\ WellFormed(global)
                     /\ ~Grants(global, user, ret'.permission)
                     /\ vm # "None"
                     /\ ~WellFormed(permissions[LocalNode][vm]))
                      => ret'.status = "error"]_vars

\* The unknown group is met before any grant and the check fails.
C6_Witness ==
    /\ ret.op = "checkPermission"
    /\ ret.SUDO_USER = "alice"
    /\ ret.status = "error"
    /\ permissions[LocalNode]["None"][1].group = "staff"

\* ------------------------------------------------ group membership properties
IsAddCall == ret' # ret /\ ret'.op = "addUserPermissionGroup"
IsDeleteCall == ret' # ret /\ ret'.op = "deleteUserPermissionGroup"

\* The account that runs the call
Actor(call) == IF call.SUDO_USER = "None" THEN "root" ELSE call.SUDO_USER

NotSuperuser(user) == user # "root" /\ ~InList(user, superusers)

\* The users of a group of a configuration, none when it has no such group
Members(permission_config, permission_group) ==
    IF HasGroup(permission_config, permission_group)
    THEN UsersOf(permission_config, permission_group) ELSE << >>

\* The calls sent to a peer
CallsTo(log, node) == {i \in DOMAIN log : log[i].node = node}

\* C7: a call of addUserPermissionGroup by an account that is not a
\* superuser adds no member to an owner group of any scope nor to any group
\* of the global scope, on any node; it succeeds, and changes a
\* configuration, only for the user group of a VM on which the account holds
\* MANAGE_VM_USERS; every other such call fails and leaves every
\* configuration unchanged.
C7_OnlySuperusersGrantOwner ==
    [][IsAddCall =>
        LET actor == Actor(ret')
            vm == ret'.vm_object
            allowed == /\ vm # "None"
                       /\ ret'.permission_group = "user"
                       /\ \/ Grants(permissions[LocalNode]["None"], actor,
                                    "MANAGE_VM_USERS")
                          \/ Grants(permissions[LocalNode][vm], actor,
                                    "MANAGE_VM_USERS")
        IN  NotSuperuser(actor)
              => /\ \A node \in Nodes, scope \in Scopes, group \in GroupNames :
                       (group = "owner" \/ scope = "None")
                         => Members(permissions'[node][scope], group)
                              = Members(permissions[node][scope], group)
                 /\ ret'.status = "ok" => allowed
                 /\ ~allowed => /\ ret'.status = "error"
                                /\ permissions' = permissions
                                /\ dispatched' = << >>]_vars

\* alice, an owner of vm1 and no superuser, has added bob to its user group.
C7_Witness ==
    /\ ret.op = "addUserPermissionGroup"
    /\ ret.SUDO_USER = "alice"
    /\ ret.status = "ok"
    /\ ~ret.ignore_duplicate
    /\ ret.permission_group = "user"
    /\ ret.vm_object = "vm1"
    /\ InList("bob", Members(permissions[LocalNode]["vm1"], "user"))
    /\ InList("alice", Members(permissions[LocalNode]["vm1"], "owner"))

\* C8: a call of addUserPermissionGroup that persists the change on a node
\* whose cluster is initialised succeeds, each peer receives exactly one
\* remote add command carrying the same group, username and VM name, and
\* afterwards every node's configuration lists the username in the group;
\* when the cluster is not initialised no remote command is sent.
C8_OneRemoteAddPerPeer ==
    [][IsAddCall =>
        LET vm == ret'.vm_object
            group == ret'.permission_group
            persisted == permissions'[LocalNode] # permissions[LocalNode]
        IN  /\ ~initialise_nodes => dispatched' = << >>
            /\ (persisted /\ initialise_nodes)
                 => /\ ret'.status = "ok"
                    /\ \A i \in DOMAIN Peers :
                         Cardinality(CallsTo(dispatched', Peers[i])) = 1
                    /\ \A i \in DOMAIN dispatched' :
                         dispatched'[i].command =
                            [action |-> "auth-addUserPermissionGroup",
                             permission_group |-> group,
                             username |-> ret'.username, vm_name |-> vm]
                    /\ \A node \in Nodes :
                         InList(ret'.username,
                                Members(permissions'[node][vm], group))]_vars

\* An add was persisted and replicated on an initialised cluster.
C8_Witness ==
    /\ ret.op = "addUserPermissionGroup"
    /\ initialise_nodes
    /\ dispatched # << >>
    /\ \A node \in Nodes :
         InList(ret.username, Members(permissions[node][ret.vm_object],
                                      ret.permission_group))

\* C9: for every account, group and scope, a call of
\* deleteUserPermissionGroup for a username that is not a member of the
\* group in the scope fails with an error, leaves every configuration
\* unchanged and sends no remote command.
C9_DeleteNonMemberFails ==
    [][(/\ IsDeleteCall
        /\ ~InList(ret'.username,
                   Members(permissions[LocalNode][ret'.vm_object],
                           ret'.permission_group)))
          => /\ ret'.status = "error"
             /\ permissions' = permissions
             /\ dispatched' = << >>]_vars

\* A superuser's removal of a non-member was refused.
C9_Witness ==
    /\ ret.op = "deleteUserPermissionGroup"
    /\ ret.SUDO_USER = "carol"
    /\ ret.status = "error"
    /\ ret.vm_object = "vm1"
    /\ ~InList(ret.username,
               Members(permissions[LocalNode]["vm1"], ret.permission_group))

\* ------------------------------------------------------------- VM creation
IsCreateCall == ret' # ret /\ ret'.op = "create"

\* The name of every VM whose create succeeded is in the name list of every
\* node of the cluster
Reserved(names, lists) ==
    \A name \in names : \A node \in Nodes : InList(name, lists[node])

\* A call of create that changes nothing and sends nothing to the peers
CreateChangesNothing ==
    /\ UNCHANGED <<vm_dirs, virtual_machines, vm_config, libvirt_domains,
                   CACHED_OBJECTS, objects_made, drbd_enabled, cluster_nodes, created>>
    /\ UNCHANGED <<sessVars, superusers, permissions>>
    /\ dispatched' = << >>

\* C10 as stated: after a successful create of a VM named n, n is in the VM
\* name list of the coordinator and of every peer, and every later create
\* with the name n, on any node, fails with the already-exists error and
\* changes no state.
C10_LaterCreateAlreadyExists ==
    [][IsCreateCall =>
        /\ Reserved(created', virtual_machines')
        /\ ret'.name \in created =>
             /\ ret'.status = "VmAlreadyExistsException"
             /\ CreateChangesNothing]_vars

\* C10, amended: after a successful create of a VM named n, n is in the VM
\* name list of the coordinator and of every peer, and every later create
\* with the name n, on any node, fails and changes no state: with the
\* already-exists error when the caller holds CREATE_VM, with the permission
\* error when the caller does not.
C10_LaterCreateFails ==
    [][IsCreateCall =>
        /\ Reserved(created', virtual_machines')
        /\ ret'.name \in created =>
             /\ ret'.status =
                  IF checkPermission(ret'.SUDO_USER, "CREATE_VM", "None") = "True"
                  THEN "VmAlreadyExistsException"
                  ELSE "PermissionError"
             /\ CreateChangesNothing]_vars

\* A VM created from node1 and registered there was asked for again on node3,
\* and the call was refused because the VM exists.
C10_Witness ==
    /\ ret.op = "create"
    /\ ret.name \in created
    /\ ret.name \in libvirt_domains["node1"]
    /\ ret.host = "node3"
    /\ ret.status = "VmAlreadyExistsException"

\* C11: a create that fails at a gate before the local commit raises that
\* gate's error, leaves the directories, the name lists, the configuration
\* records, the handle caches and the registrations of every node unchanged,
\* and dispatches no remote create.
C11_GateFailureChangesNothing ==
    [][(IsCreateCall /\ GateStatus(ret') # "ok") =>
        /\ ret'.status = GateStatus(ret')
        /\ ret'.steps = << >>
        /\ CreateChangesNothing]_vars

\* A create was refused by the last gate, the capacity check, and nothing
\* was written or sent.
C11_Witness ==
    /\ ret.op = "create"
    /\ ret.status = "InsufficientSpaceException"
    /\ ret.steps = << >>
    /\ dispatched = << >>

\* The number of distinct elements of a list
Distinct(list) == Cardinality({list[i] : i \in DOMAIN list})

\* C12: every VM successfully created with replicated storage has exactly
\* replica-size distinct available nodes, and a replicated-storage create whose
\* available-node count differs from the replica size fails before a directory
\* is created or a name reserved.
C12_ReplicaSizeDistinctNodes ==
    [][(IsCreateCall /\ ret'.args.storage_type = "Drbd") =>
        /\ ret'.status = "ok" =>
             Distinct(vm_config'[ret'.host][ret'.name].available_nodes) = CLUSTER_SIZE
        /\ Len(ResolvedAvailableNodes(ret'.host, ret'.args)) # CLUSTER_SIZE =>
             /\ ret'.status # "ok"
             /\ UNCHANGED <<vm_dirs, virtual_machines>>]_vars

\* A VM with replicated storage was created whose two available nodes are
\* the same node.
C12_Witness ==
    /\ ret.op = "create"
    /\ ret.status = "ok"
    /\ ret.args.storage_type = "Drbd"
    /\ vm_config[ret.host][ret.name].available_nodes = <<"node1", "node1">>

\* The nodes on which a VM is registered with the hypervisor
RegisteredOn(domains, name) == {node \in Nodes : name \in domains[node]}

\* C13: after every successful coordinated create the VM is registered with a
\* hypervisor on exactly one node of the cluster, its target node; when the
\* target is not the coordinator, the coordinator only records the target
\* node in the configuration.
C13_RegisteredOnceOnTarget ==
    [][(IsCreateCall /\ ret'.status = "ok") =>
        LET target == ResolvedNode(ret'.host, ret'.args)
        IN  /\ RegisteredOn(libvirt_domains', ret'.name) = {target}
            /\ vm_config'[ret'.host][ret'.name].node = target]_vars

\* A create whose target node is no node of the cluster has succeeded: the
\* coordinator recorded the target and no node registered the VM.
C13_Witness ==
    /\ ret.op = "create"
    /\ ret.status = "ok"
    /\ ret.args.node = "node9"
    /\ vm_config[ret.host][ret.name].node = "node9"
    /\ RegisteredOn(libvirt_domains, ret.name) = {}

\* ------------------------------------------------------ concurrent lookups
\* A thread holds a handle it has constructed for the name, on the node
HoldsHandle(t, node, vm_name) ==
    /\ threads[t].pc \in {"store", "return"}
    /\ threads[t].node = node
    /\ threads[t].vm_name = vm_name
    /\ threads[t].vm_object # 0

\* C14: under every interleaving of concurrent getVirtualMachineByName calls
\* at most one handle is ever constructed for a name (a handle is constructed
\* only while none exists for the name, in the cache or in another thread's
\* hands), and the handle the cache holds for a name never changes, so every
\* call returns the handle of the first lookup.
C14_OneHandlePerName ==
    [][/\ \A t \in Threads :
            (threads[t].pc = "construct" /\ threads'[t].pc = "store") =>
                /\ threads[t].vm_name \notin DOMAIN CACHED_OBJECTS[threads[t].node]
                /\ \A u \in Threads \ {t} :
                      ~HoldsHandle(u, threads[t].node, threads[t].vm_name)
       /\ \A node \in Nodes : \A vm_name \in DOMAIN CACHED_OBJECTS[node] :
            CACHED_OBJECTS'[node][vm_name] = CACHED_OBJECTS[node][vm_name]]_vars

\* Two threads have each constructed a handle for vm1, and the two handles
\* are different objects.
C14_Witness ==
    /\ HoldsHandle("t1", LocalNode, "vm1")
    /\ HoldsHandle("t2", LocalNode, "vm1")
    /\ threads["t1"].vm_object # threads["t2"].vm_object

\* ------------------------------------- concurrent calls on the session table
\* C15: under every interleaving of concurrent authenticate_user and
\* authenticate_session calls, every call ends by returning its result or by
\* raising AuthenticationError, never with another failure, and every entry
\* of the session table is a complete session record.
C15_OnlyAuthenticationErrors ==
    /\ ret.op # "none" => ret.status \in {"ok", "AuthenticationError"}
    /\ \A session \in DOMAIN USER_SESSIONS :
          /\ DOMAIN USER_SESSIONS[session] = {"username", "expires"}
          /\ USER_SESSIONS[session].username \in Users
          /\ USER_SESSIONS[session].expires \in 0..MaxExpires

\* A call of authenticate_session has ended with a KeyError: the session it
\* had found in the table was deleted by another call before it used it.
C15_Witness ==
    /\ ret.op = "authenticate_session"
    /\ ret.status = "KeyError"
    /\ ret.session \notin DOMAIN USER_SESSIONS

\* ------------------------------------------------ concurrent calls of create
\* The threads that are executing create
InCreate(ths) == {t \in Threads : ths[t].pc \in {"gates", "commit", "exit"}}

\* No name list holds a name twice
NoDuplicateNames(lists) ==
    \A node \in Nodes : \A i, j \in DOMAIN lists[node] :
        lists[node][i] = lists[node][j] => i = j

\* C16: under every interleaving of concurrent create calls, on any nodes,
\* the calls are serialized by the lock (at most one is executing create),
\* at most one create for a name passes the existence check and commits (a
\* create commits a name only while no node's name list holds it), and no
\* name list of any node holds a name twice.
C16_OneCommitPerName ==
    [][/\ Cardinality(InCreate(threads')) <= 1
       /\ NoDuplicateNames(virtual_machines')
       /\ \A t \in Threads :
            (threads[t].pc = "commit" /\ threads'[t].pc = "exit") =>
               \A node \in Nodes :
                  ~InList(threads[t].args.name, virtual_machines[node])]_vars

\* Two creates of vm1, one started on node1 and one on node3, have each
\* passed the existence check and written a configuration record for vm1.
C16_Witness ==
    /\ "vm1" \in DOMAIN vm_config["node1"]
    /\ "vm1" \in DOMAIN vm_config["node3"]
    /\ vm_config["node1"]["vm1"].available_nodes = <<"node1">>
    /\ vm_config["node3"]["vm1"].available_nodes = <<"node3">>

\* ------------------------------------------------- DRBD resource names
\* A string of the form mcvirt_vm-<hostname>-disk-<n> with a valid hostname
\* and 1 <= n <= 99
WellFormedResource(variable) ==
    \E j \in Len(ResourcePrefix)..Len(variable) :
        /\ j + Len(DiskMark) < Len(variable)
        /\ StartsWith(variable, ResourcePrefix)
        /\ SubSeq(variable, j + 1, j + Len(DiskMark)) = DiskMark
        /\ validate_hostname(SubSeq(variable, Len(ResourcePrefix) + 1, j)) = "ok"
        /\ LET index == SubSeq(variable, j + Len(DiskMark) + 1, Len(variable))
           IN  /\ \A k \in DOMAIN index : index[k] \in Digits
               /\ int(index) >= 1
               /\ int(index) <= 99

\* C17: validate_drbd_resource accepts a string if and only if it has the
\* form <prefix>_vm-<hostname>-disk-<n> with a hostname that satisfies
\* validate_hostname and 1 <= n <= 99, and raises the validation error for
\* every other string.
C17_AcceptsIffWellFormed ==
    ret.op = "validate_drbd_resource" =>
        (ret.status = "ok" <=> WellFormedResource(ret.variable))

\* mcvirt_vm-w1-disk-3, a well-formed name with a valid hostname and an index
\* in range, was rejected.
C17_Witness ==
    /\ ret.op = "validate_drbd_resource"
    /\ ret.variable = ResourcePrefix \o <<"w", "1">> \o DiskMark \o <<"3">>
    /\ ret.status = "TypeError"

\* ------------------------------------------------- failures of replication
\* A VM's directory, name-list entry and configuration record as the commit
\* writes them, on a node
Committed(node, name, a, graphics_driver) ==
    /\ name \in vm_dirs'[node]
    /\ InList(name, virtual_machines'[node])
    /\ name \in DOMAIN vm_config'[node]
    /\ vm_config'[node][name] =
          VirtualMachineConfig_create(a.available_nodes, a.cpu_cores,
                                      a.memory_allocation, graphics_driver)

\* A node on which the call has changed nothing
Untouched(node) ==
    /\ vm_dirs'[node] = vm_dirs[node]
    /\ virtual_machines'[node] = virtual_machines[node]
    /\ vm_config'[node] = vm_config[node]
    /\ libvirt_domains'[node] = libvirt_domains[node]
    /\ CACHED_OBJECTS'[node] = CACHED_OBJECTS[node]

\* A call of create whose gates passed and that failed: its replication failed
IsFailedReplication ==
    /\ IsCreateCall
    /\ GateStatus(ret') = "ok"
    /\ ret'.status # "ok"

\* C18: when the replication of a create fails, the peer's error is raised
\* to the caller; the coordinator keeps the directory, the name-list entry and
\* the configuration record it wrote, and so does every peer that had applied
\* the create; the peer that failed and the peers after it are left alone and
\* each peer is called at most once; the coordinator registers nothing,
\* records no target node and provisions nothing; and a retry of the create
\* on the coordinator fails as already existing.
C18_ReplicationFailureIsNotUndone ==
    [][/\ IsFailedReplication =>
            LET host == ret'.host
                name == ret'.name
                peers == get_nodes(host)
                sent == Len(dispatched')
                remote == RemoteCreateArgs(host, ret'.args)
            IN  /\ sent \in 1..Len(peers)
                /\ \A k \in 1..sent : dispatched'[k].node = peers[k]
                /\ ret'.status = createGates(CreateState, peers[sent], FALSE, FALSE, remote)
                /\ Committed(host, name, remote, ResolvedGraphicsDriver(ret'.args))
                /\ \A k \in 1..(sent - 1) :
                      Committed(peers[k], name, remote, ResolvedGraphicsDriver(remote))
                /\ \A k \in sent..Len(peers) : Untouched(peers[k])
                /\ libvirt_domains'[host] = libvirt_domains[host]
                /\ CACHED_OBJECTS'[host] = CACHED_OBJECTS[host]
                /\ vm_config'[host][name].node = "None"
                /\ vm_config'[host][name].hard_disks = << >>
                /\ vm_config'[host][name].network_interfaces = << >>
                /\ vm_config'[host][name].modification_flags = << >>
                /\ created' = created
       /\ (/\ IsCreateCall
           /\ ret.op = "create"
           /\ ret.status # "ok"
           /\ ret.steps # << >>
           /\ ret'.host = ret.host
           /\ ret'.name = ret.name
           /\ ret'.SUDO_USER = ret.SUDO_USER) =>
               /\ ret'.status = "VmAlreadyExistsException"
               /\ CreateChangesNothing]_vars

\* A create on node1 failed at its second peer, node3: node1 and node2 hold
\* the VM, node3 does not, and nothing is registered.
C18_Witness ==
    /\ ret.op = "create"
    /\ ret.host = "node1"
    /\ ret.status = "VmDirectoryAlreadyExistsException"
    /\ Len(dispatched) = 2
    /\ InList(ret.name, virtual_machines["node1"])
    /\ InList(ret.name, virtual_machines["node2"])
    /\ ~InList(ret.name, virtual_machines["node3"])
    /\ RegisteredOn(libvirt_domains, ret.name) = {}

\* ------------------------------------------------------ the order of steps
\* The places of a step of a node in the steps of a call
Places(steps, node, names) ==
    {i \in DOMAIN steps : steps[i].node = node /\ steps[i].step \in names}

Before(earlier, later) == \A i \in earlier, j \in later : i < j

\* C19: in every create on the coordinator, the remote create is dispatched
\* only after the directory, the name-list entry and the configuration record
\* have been written locally; the registration or the recording of the target
\* node comes only after the replication call has returned (every peer was
\* called and has done its part); and disks, network adapters and flags are
\* provisioned only after the registration.
C19_StepOrder ==
    [][IsCreateCall =>
        LET steps == ret'.steps
            host == ret'.host
            dispatch == Places(steps, host, {"dispatch"})
            placing == Places(steps, host, {"register", "set_node"})
            provisioning == Places(steps, host, {"disk", "network", "flags"})
            remote == {i \in DOMAIN steps : steps[i].node # host}
        IN  /\ dispatch # {} =>
                 /\ Places(steps, host, {"makedirs"}) # {}
                 /\ Places(steps, host, {"name_list"}) # {}
                 /\ Places(steps, host, {"config"}) # {}
            /\ Before(Places(steps, host, {"makedirs", "name_list", "config"}), dispatch)
            /\ placing # {} => Cardinality(dispatch) = Len(get_nodes(host))
            /\ Before(dispatch \cup remote, placing)
            /\ provisioning # {} => placing # {}
            /\ Before(placing, provisioning)]_vars

\* A create has run to its end: it wrote, dispatched to both peers, registered
\* and provisioned a disk, a network adapter and the flags.
C19_Witness ==
    /\ ret.op = "create"
    /\ ret.status = "ok"
    /\ Cardinality(Places(ret.steps, ret.host, {"dispatch"})) = 2
    /\ Places(ret.steps, ret.host, {"register"}) # {}
    /\ Places(ret.steps, ret.host, {"disk"}) # {}
    /\ Places(ret.steps, ret.host, {"network"}) # {}

\* ----------------------------------------- the configuration on the peers
\* C20: after a successful coordinated create, the configuration record of
\* the VM on every peer has the cpu cores, the memory allocation, the
\* available nodes and the graphics driver of the record on the coordinator.
C20_PeerConfigEqualsCoordinator ==
    [][(IsCreateCall /\ ret'.status = "ok") =>
        \A peer \in Nodes :
            LET mine == vm_config'[ret'.host][ret'.name]
                theirs == vm_config'[peer][ret'.name]
            IN  /\ theirs.cpu_cores = mine.cpu_cores
                /\ theirs.memory_allocation = mine.memory_allocation
                /\ theirs.available_nodes = mine.available_nodes
                /\ theirs.graphics_driver = mine.graphics_driver]_vars

\* A VM was created with the cirrus graphics driver: the coordinator's record
\* says cirrus, a peer's record says vmvga.
C20_Witness ==
    /\ ret.op = "create"
    /\ ret.status = "ok"
    /\ vm_config[ret.host][ret.name].graphics_driver = "cirrus"
    /\ \E peer \in Nodes : vm_config[peer][ret.name].graphics_driver = "vmvga"

\* ------------------------------------------------------------------ placement
\* The elements of a list
Elements(list) == {list[i] : i \in DOMAIN list}

\* The known cluster of a node: its peers and the node itself
KnownCluster(host) == Elements(cluster_nodes[host]) \cup {host}

\* C21: the available nodes of every VM a coordinator has created are nodes
\* of the known cluster of the coordinator and include the coordinator; when
\* the caller gave no available nodes they are the coordinator alone for
\* local storage and the whole cluster for replicated storage.
C21_AvailableNodesInCluster ==
    [][(IsCreateCall /\ ret'.status = "ok") =>
        LET host == ret'.host
            available_nodes == vm_config'[host][ret'.name].available_nodes
        IN  /\ Elements(available_nodes) \subseteq KnownCluster(host)
            /\ host \in Elements(available_nodes)
            /\ ret'.args.available_nodes = << >> =>
                  IF ret'.args.storage_type = "Drbd"
                  THEN Elements(available_nodes) = KnownCluster(host)
                  ELSE available_nodes = <<host>>]_vars

\* A create with replicated storage and no available nodes has succeeded in
\* the cluster of two, and the VM has both nodes as its available nodes.
C21_Witness ==
    /\ ret.op = "create"
    /\ ret.status = "ok"
    /\ ret.args.storage_type = "Drbd"
    /\ ret.args.available_nodes = << >>
    /\ Elements(vm_config[ret.host][ret.name].available_nodes) = {"node1", "node2"}


\* ------------------------------------------------- removal from a group
\* C22: a call of deleteUserPermissionGroup by an account that is not a
\* superuser, for the owner group, fails with an error and leaves every
\* configuration unchanged, also when the account holds MANAGE_VM_USERS on
\* the VM; and no call returns without an error unless it has removed the
\* username from the group.
C22_DeleteEnforcesAddRule ==
    [][IsDeleteCall =>
        LET before == Members(permissions[LocalNode][ret'.vm_object],
                              ret'.permission_group)
            after == Members(permissions'[LocalNode][ret'.vm_object],
                             ret'.permission_group)
        IN  /\ (NotSuperuser(Actor(ret')) /\ ret'.permission_group = "owner")
                  => ret'.status = "error" /\ permissions' = permissions
            /\ ret'.status = "ok"
                  => InList(ret'.username, before) /\ Len(after) = Len(before) - 1]_vars

\* An owner of vm1 who is not a superuser asked for a removal from the owner
\* group of vm1, and the call returned without an error.
C22_Witness ==
    /\ ret.op = "deleteUserPermissionGroup"
    /\ NotSuperuser(Actor(ret))
    /\ InList(Actor(ret), Members(permissions[LocalNode]["vm1"], "owner"))
    /\ ret.vm_object = "vm1"
    /\ ret.permission_group = "owner"
    /\ ret.status = "ok"

\* ------------------------------------------------- concurrent additions
\* The number of times a username is in a list
Occurrences(list, username) == Cardinality({i \in DOMAIN list : list[i] = username})

\* No group of any configuration of any node holds a username twice
NoDuplicateMembers ==
    \A node \in Nodes, scope \in Scopes :
       \A i \in DOMAIN permissions[node][scope] :
          \A username \in {"alice", "bob"} :
             Occurrences(permissions[node][scope][i].users, username) <= 1

\* A thread's call appends the username to the list on the local node
Appends(t) == threads[t].pc = "append" /\ threads'[t].pc # "append"

IsProxyCall == ret' # ret /\ ret'.op = "get_proxy_user_object"
IsCurrentUserCall == ret' # ret /\ ret'.op = "get_current_user_object"

\* The context of a call is bound to a session of the table
Bound(call) == call.session_id \in DOMAIN USER_SESSIONS

\* C24: get_proxy_user_object returns a user other than the current user
\* only when the class of the current user allows proxying, the context
\* carries a proxy username and a user of that name exists; when no user of
\* that name exists it returns the current user and does not raise; when the
\* class does not allow proxying it returns the current user whatever the
\* context carries; and it never changes the session table.
C24_ProxyOnlyWhenAllowed ==
    [][IsProxyCall =>
        /\ USER_SESSIONS' = USER_SESSIONS
        /\ Bound(ret') =>
              LET current_user == USER_SESSIONS[ret'.session_id].username
              IN  /\ (ret'.status = "ok" /\ ret'.value # current_user)
                        => /\ allow_proxy_user(current_user)
                           /\ ret'.proxy_user \in Users
                           /\ ret'.value = ret'.proxy_user
                  /\ ret'.proxy_user \notin Users \cup {"absent", "None"}
                        => ret'.status = "ok" /\ ret'.value = current_user
                  /\ ~allow_proxy_user(current_user)
                        => ret'.status = "ok" /\ ret'.value = current_user]_vars

\* The connection user, proxying for alice, got alice.
C24_Witness ==
    /\ ret.op = "get_proxy_user_object"
    /\ Bound(ret)
    /\ USER_SESSIONS[ret.session_id].username = "svc"
    /\ ret.proxy_user = "alice"
    /\ ret.status = "ok"
    /\ ret.value = "alice"

\* C25: get_current_user_object returns a user only for a session that is in
\* the table and has not expired; in a context bound to a session id that is
\* not in the table, or whose session has expired, it raises CurrentUserError,
\* as it does when no session is bound.
C25_CurrentUserNeedsValidSession ==
    [][IsCurrentUserCall =>
        LET valid == Bound(ret') /\ is_valid(USER_SESSIONS[ret'.session_id], now)
        IN  /\ ret'.status = "ok" => valid
            /\ ~valid => ret'.status = "CurrentUserError"]_vars

\* In a context bound to alice's expired session, get_current_user_object
\* returned alice.
C25_Witness ==
    /\ ret.op = "get_current_user_object"
    /\ Bound(ret)
    /\ ~is_valid(USER_SESSIONS[ret.session_id], now)
    /\ ret.status = "ok"
    /\ ret.value = "alice"

\* ------------------------------------------------------- expiry of sessions
\* A call of authenticate_user or authenticate_session that succeeds
IsAuthentication ==
    /\ ret' # ret
    /\ ret'.op \in {"authenticate_user", "authenticate_session"}
    /\ ret'.status = "ok"

\* C26: when authenticate_user or authenticate_session succeeds for a session
\* that expires, the expiry of the session is then at most the time of the
\* call plus the timeout, however often the session was renewed before; the
\* expiry changes at no other time, so a session that is not presented for
\* longer than the timeout cannot be authenticated afterwards.
C26_ExpiryWithinTimeoutOfLastUse ==
    [][/\ IsAuthentication =>
            LET expires == USER_SESSIONS'[ret'.session].expires
            IN  expires # 0 => expires <= now' + get_timeout
       /\ ~IsAuthentication =>
            \A session \in DOMAIN USER_SESSIONS \cap DOMAIN USER_SESSIONS' :
               USER_SESSIONS'[session].expires = USER_SESSIONS[session].expires]_vars

\* authenticate_session succeeded and left the session with an expiry later
\* than the time of the call plus the timeout.
C26_Witness ==
    /\ ret.op = "authenticate_session"
    /\ ret.status = "ok"
    /\ ret.session \in DOMAIN USER_SESSIONS
    /\ USER_SESSIONS[ret.session].expires > now + get_timeout

\* ------------------------------------------------------------ target node
\* C27: after every successful create the node recorded as the target of the
\* VM, and every node of the coordinator's cluster on which the VM is
\* registered, is one of the available nodes of the VM and a node of the known
\* cluster; so a create whose target node is not among the resolved available
\* nodes does not succeed.
C27_TargetAmongAvailableNodes ==
    [][(IsCreateCall /\ ret'.status = "ok") =>
        LET host == ret'.host
            config == vm_config'[host][ret'.name]
            placed == {config.node}
                        \cup (RegisteredOn(libvirt_domains', ret'.name)
                                 \cap KnownCluster(host))
        IN  /\ placed \subseteq Elements(config.available_nodes)
            /\ placed \subseteq KnownCluster(host)]_vars

\* A create on node1 for the target node2 has succeeded with node1 as the
\* only available node: node2 is recorded as the target and has registered
\* the VM.
C27_Witness ==
    /\ ret.op = "create"
    /\ ret.status = "ok"
    /\ ret.host = "node1"
    /\ vm_config["node1"][ret.name].available_nodes = <<"node1">>
    /\ vm_config["node1"][ret.name].node = "node2"
    /\ RegisteredOn(libvirt_domains, ret.name) = {"node2"}

\* ------------------------------------------------- the ambient account
IsAuthMethodCall == ret' # ret /\ ret'.op = "Auth"

\* The outcome of the call, had the process been run by another account
OutcomeUnder(call, SUDO_USER) ==
    AuthMethod([username |-> call.username], call.method, SUDO_USER, call.permission,
               call.vm_object)

\* C28: the outcome of isSuperuser, checkPermission and assertPermission on
\* an Auth object constructed for a username depends on that username, the
\* permission, the superusers and the configurations only: the same call on
\* an object for the same username gives the same outcome whichever account
\* runs the process.
C28_OutcomeIndependentOfAmbientUser ==
    [][(IsAuthMethodCall /\ ret'.given # "None") =>
        \A SUDO_USER \in SudoUsers :
           OutcomeUnder(ret', SUDO_USER)
             = IF ret'.status = "error" THEN "error" ELSE ret'.value]_vars

\* isSuperuser on an Auth object constructed for alice, who is no superuser,
\* returned True in a process run by the superuser carol.
C28_Witness ==
    /\ ret.op = "Auth"
    /\ ret.method = "isSuperuser"
    /\ ret.given = "alice"
    /\ ret.username = "alice"
    /\ ret.SUDO_USER = "carol"
    /\ ~InList("alice", superusers)
    /\ ret.value = "True"

====
